---- MODULE Spec2Model ----
(***************************************************************************)
(* Group command dispatch of the Spring engine:                            *)
(* CSelectedUnitsHandlerAI (rts/Game/SelectedUnitsAI.cpp).                 *)
(*                                                                         *)
(* One call GiveCommandNet(c, player) turns the order c into GiveCommand   *)
(* calls on the units of netSelected[player].  The model keeps the fields  *)
(* of the handler object, the per-unit command queues and, as history,     *)
(* the list of GiveCommand calls made by the last GiveCommandNet call.     *)
(*                                                                         *)
(* Arithmetic.  The code computes with 32-bit floats.  Every float is      *)
(* modelled as a fixed-point integer: the value v is stored as v * FP      *)
(* (rounded down).  Products and quotients are rescaled (FMul, FDiv) and   *)
(* square roots are integer square roots (FSqrt).  Unit identifiers that   *)
(* travel in a float parameter (attack targets) are stored unscaled.       *)
(***************************************************************************)
EXTENDS Integers, Sequences, FiniteSets, TLC

VARIABLES
    unitAlive,     \* unitHandler: identifiers for which GetUnit is non-null
    quadOrder,     \* quadField: order in which a region query lists units
    netSelected,   \* selectedUnitsHandler.netSelected[player]
    commandQue,    \* unit->commandAI->commandQue, per unit
    ai,            \* the fields of the CSelectedUnitsHandlerAI object
    given,         \* history: GiveCommand calls of the last GiveCommandNet
    acks,          \* history: waitCommandsAI.AcknowledgeCommand calls, last call
    faults,        \* history: undefined behaviour met by the last GiveCommandNet
    rowLog,        \* history: the formation rows closed by the last GiveCommandNet
    lookLog,       \* history: the row-break decisions of the last GiveCommandNet
    lastCall,      \* history: input and pre-state of the last GiveCommandNet
    strategy,      \* history: the branch of GiveCommandNet the last call took
    nCalls         \* number of GiveCommandNet calls made

vars == <<unitAlive, quadOrder, netSelected, commandQue, ai, given, acks,
          faults, rowLog, lookLog, lastCall, strategy, nCalls>>

---------------------------------------------------------------------------
(* Bounds of the model *)

\* fixed-point resolution: a float v is stored as v * FP
FP == 12
\* number of GiveCommandNet calls explored in one behaviour
MaxCalls == 2

---------------------------------------------------------------------------
(* Program constants *)

\* Sim/Misc/GlobalConstants.h: side of one heightmap square, in elmos
SQUARE_SIZE == 8
\* minimum front half-length in excess of the selection size
MIN_FRONT_EXCESS == 33
\* range given to weaponless units by CreateUnitOrder
WEAPONLESS_RANGE == 2000
\* weight of the metal cost in the formation priority
METAL_WEIGHT == 60
\* ALT move: base length and per-sqrt(unit) length of the synthesized front
ALT_FRONT_BASE == 100
ALT_FRONT_PER_UNIT == 32
\* initial value of groupMinMaxSpeed (1e9f), already in model units
GROUP_SPEED_SENTINEL == 1000000000

CMD_STOP == "CMD_STOP"
CMD_WAIT == "CMD_WAIT"
CMD_SELFD == "CMD_SELFD"
CMD_FIRE_STATE == "CMD_FIRE_STATE"
CMD_MOVE_STATE == "CMD_MOVE_STATE"
CMD_ONOFF == "CMD_ONOFF"
CMD_REPEAT == "CMD_REPEAT"
CMD_MOVE == "CMD_MOVE"
CMD_PATROL == "CMD_PATROL"
CMD_FIGHT == "CMD_FIGHT"
CMD_ATTACK == "CMD_ATTACK"
CMD_SET_WANTED_MAX_SPEED == "CMD_SET_WANTED_MAX_SPEED"

\* Command::options is a bit mask; it is modelled as the set of bits set
SHIFT_KEY == "SHIFT_KEY"
CONTROL_KEY == "CONTROL_KEY"
ALT_KEY == "ALT_KEY"

CMDPARAM_MOVE_X == 1
CMDPARAM_MOVE_Y == 2
CMDPARAM_MOVE_Z == 3

---------------------------------------------------------------------------
(* Fixed-point arithmetic and float3 *)

\* the float k (an integer) in model units
P(k) == k * FP

Abs(a) == IF a < 0 THEN -a ELSE a

FMul(a, b) == (a * b) \div FP

\* a / b for b # 0; rounds toward minus infinity
FDiv(a, b) == IF b > 0 THEN (a * FP) \div b ELSE ((-a) * FP) \div (-b)

RECURSIVE ISqrtIn(_, _, _)
\* largest r in lo..hi with r * r <= n (binary search)
ISqrtIn(n, lo, hi) ==
    IF lo >= hi THEN lo
    ELSE LET mid == (lo + hi + 1) \div 2
         IN  IF mid * mid <= n THEN ISqrtIn(n, mid, hi) ELSE ISqrtIn(n, lo, mid - 1)

ISqrt(n) == ISqrtIn(n, 0, 46340)

\* math::sqrt of the fixed-point number a
FSqrt(a) == ISqrt(a * FP)

Min(a, b) == IF a < b THEN a ELSE b

ZeroVector == <<0, 0, 0>>

VAdd(a, b) == <<a[1] + b[1], a[2] + b[2], a[3] + b[3]>>
VSub(a, b) == <<a[1] - b[1], a[2] - b[2], a[3] - b[3]>>
\* float3 * float
VScale(a, s) == <<FMul(a[1], s), FMul(a[2], s), FMul(a[3], s)>>
\* float3 / (integer count)
VDivInt(a, k) == <<a[1] \div k, a[2] \div k, a[3] \div k>>
\* float3 * XZVector
VXZ(a) == <<a[1], 0, a[3]>>
\* float3::distance
VDistance(a, b) ==
    LET d == VSub(a, b)
    IN  FSqrt(FMul(d[1], d[1]) + FMul(d[2], d[2]) + FMul(d[3], d[3]))
\* float3::SqLength2D
SqLength2D(a) == FMul(a[1], a[1]) + FMul(a[3], a[3])
\* float3::ANormalize; a zero vector is left as it is
ANormalize(a) ==
    LET len == FSqrt(FMul(a[1], a[1]) + FMul(a[2], a[2]) + FMul(a[3], a[3]))
    IN  IF len = 0 THEN a ELSE <<FDiv(a[1], len), FDiv(a[2], len), FDiv(a[3], len)>>
\* float3::cross(UpVector), UpVector = (0, 1, 0)
CrossUp(a) == <<-a[3], 0, a[1]>>

---------------------------------------------------------------------------
(* The world the handler reads: units, teams, line of sight, ground *)

\* players 0 and 1 are active; player 0 is the local player (gu->myPlayerNum)
Players == {0, 1}
\* the slots of netSelected; slot 2 belongs to no player (IsValidPlayer fails)
PlayerSlots == Players \cup {2}
myPlayerNum == 0

\* teamHandler.AllyTeam(playerHandler.Player(p)->team)
AllyTeamOfPlayer(p) == p

LOS_INLOS == "LOS_INLOS"
LOS_INRADAR == "LOS_INRADAR"

\* Units 1..4 belong to ally team 0, units 5..8 to ally team 1.
\*   1, 2  tanks of one type (equal formation priority), different current speed
\*   3     immobile, weaponless tower with an odd footprint sum
\*   4     artillery
\*   5, 6  enemies in line of sight;  7  enemy on radar only;  8  enemy unseen
\* Units 9..14 belong to ally team 0 and stand far from the others.
\*   9..12 tanks of the type of 1 and 2;  13, 14  one scout and one rocket truck
UnitTable ==
    <<  [allyteam |-> 0, midPos |-> <<P(100), 0, P(100)>>, xsize |-> 2, zsize |-> 2,
         metal |-> P(100), energy |-> P(600), health |-> P(300), maxRange |-> P(200),
         canSetMaxSpeed |-> TRUE, maxSpeed |-> P(3),
         losStatus |-> <<{LOS_INLOS}, {LOS_INLOS}>>],
        [allyteam |-> 0, midPos |-> <<P(140), 0, P(100)>>, xsize |-> 2, zsize |-> 2,
         metal |-> P(100), energy |-> P(600), health |-> P(300), maxRange |-> P(200),
         canSetMaxSpeed |-> TRUE, maxSpeed |-> P(2),
         losStatus |-> <<{LOS_INLOS}, {LOS_INRADAR}>>],
        [allyteam |-> 0, midPos |-> <<P(100), P(10), P(140)>>, xsize |-> 2, zsize |-> 5,
         metal |-> P(50), energy |-> 0, health |-> P(500), maxRange |-> 0,
         canSetMaxSpeed |-> FALSE, maxSpeed |-> 0,
         losStatus |-> <<{LOS_INLOS}, {}>>],
        [allyteam |-> 0, midPos |-> <<P(140), 0, P(140)>>, xsize |-> 3, zsize |-> 3,
         metal |-> P(300), energy |-> P(2000), health |-> P(200), maxRange |-> P(900),
         canSetMaxSpeed |-> TRUE, maxSpeed |-> P(1),
         losStatus |-> <<{LOS_INLOS}, {LOS_INLOS}>>],
        [allyteam |-> 1, midPos |-> <<P(300), 0, P(100)>>, xsize |-> 2, zsize |-> 2,
         metal |-> P(100), energy |-> P(600), health |-> P(300), maxRange |-> P(200),
         canSetMaxSpeed |-> TRUE, maxSpeed |-> P(3),
         losStatus |-> <<{LOS_INLOS}, {LOS_INLOS}>>],
        [allyteam |-> 1, midPos |-> <<P(100), 0, P(300)>>, xsize |-> 2, zsize |-> 2,
         metal |-> P(100), energy |-> P(600), health |-> P(300), maxRange |-> P(200),
         canSetMaxSpeed |-> TRUE, maxSpeed |-> P(3),
         losStatus |-> <<{LOS_INLOS, LOS_INRADAR}, {LOS_INLOS}>>],
        [allyteam |-> 1, midPos |-> <<P(120), 0, P(280)>>, xsize |-> 2, zsize |-> 2,
         metal |-> P(100), energy |-> P(600), health |-> P(300), maxRange |-> P(200),
         canSetMaxSpeed |-> FALSE, maxSpeed |-> 0,
         losStatus |-> <<{LOS_INRADAR}, {LOS_INLOS}>>],
        [allyteam |-> 1, midPos |-> <<P(200), 0, P(200)>>, xsize |-> 2, zsize |-> 2,
         metal |-> P(100), energy |-> P(600), health |-> P(300), maxRange |-> P(200),
         canSetMaxSpeed |-> TRUE, maxSpeed |-> P(3),
         losStatus |-> <<{}, {LOS_INLOS}>>],
        [allyteam |-> 0, midPos |-> <<P(1000), 0, P(1000)>>, xsize |-> 2, zsize |-> 2,
         metal |-> P(100), energy |-> P(600), health |-> P(300), maxRange |-> P(200),
         canSetMaxSpeed |-> TRUE, maxSpeed |-> P(3),
         losStatus |-> <<{LOS_INLOS}, {}>>],
        [allyteam |-> 0, midPos |-> <<P(1040), 0, P(1000)>>, xsize |-> 2, zsize |-> 2,
         metal |-> P(100), energy |-> P(600), health |-> P(300), maxRange |-> P(200),
         canSetMaxSpeed |-> TRUE, maxSpeed |-> P(3),
         losStatus |-> <<{LOS_INLOS}, {}>>],
        [allyteam |-> 0, midPos |-> <<P(1080), 0, P(1000)>>, xsize |-> 2, zsize |-> 2,
         metal |-> P(100), energy |-> P(600), health |-> P(300), maxRange |-> P(200),
         canSetMaxSpeed |-> TRUE, maxSpeed |-> P(3),
         losStatus |-> <<{LOS_INLOS}, {}>>],
        [allyteam |-> 0, midPos |-> <<P(1120), 0, P(1000)>>, xsize |-> 2, zsize |-> 2,
         metal |-> P(100), energy |-> P(600), health |-> P(300), maxRange |-> P(200),
         canSetMaxSpeed |-> TRUE, maxSpeed |-> P(3),
         losStatus |-> <<{LOS_INLOS}, {}>>],
        [allyteam |-> 0, midPos |-> <<P(1160), 0, P(1000)>>, xsize |-> 2, zsize |-> 2,
         metal |-> P(200), energy |-> 0, health |-> P(400), maxRange |-> P(300),
         canSetMaxSpeed |-> TRUE, maxSpeed |-> P(4),
         losStatus |-> <<{LOS_INLOS}, {}>>],
        [allyteam |-> 0, midPos |-> <<P(1200), 0, P(1000)>>, xsize |-> 2, zsize |-> 2,
         metal |-> P(100), energy |-> 0, health |-> P(100), maxRange |-> P(500),
         canSetMaxSpeed |-> TRUE, maxSpeed |-> P(2),
         losStatus |-> <<{LOS_INLOS}, {}>>] >>

UnitIDs == 1..Len(UnitTable)

\* the unit object behind a non-null CUnit*
Unit(u) == UnitTable[u]

\* unitHandler.GetUnit(id) # nullptr
GetUnit(alive, u) == u \in alive

\* unit->losStatus[allyTeam] (ally teams are numbered from 0)
LosStatus(u, allyTeam) == Unit(u).losStatus[allyTeam + 1]

\* CGround::GetHeightAboveWater: the map is flat, at height 0
GetHeightAboveWater(x, z) == 0

---------------------------------------------------------------------------
(* Command and CCommandAI *)

\* Command(id, options, params...)
Command(id, options, params) == [id |-> id, options |-> options, params |-> params]

\* Command::GetPos(i), i zero-based as in the code
GetPos(c, i) == <<c.params[i + 1], c.params[i + 2], c.params[i + 3]>>

\* Command::PushPos
PushPos(c, pos) == [c EXCEPT !.params = @ \o pos]

\* cai->CanSetMaxSpeed(): a capability of the unit's move controller
CanSetMaxSpeed(u) == Unit(u).canSetMaxSpeed

\* CCommandAI::WillCancelQueued: the queue holds an equal order
WillCancelQueued(q, c) ==
    \E i \in 1..Len(q) : q[i].id = c.id /\ q[i].params = c.params

RECURSIVE RemoveLastEqual(_, _)
\* the queue without its last entry equal (kind and parameters) to c
RemoveLastEqual(q, c) ==
    IF q = <<>> THEN <<>>
    ELSE IF q[Len(q)].id = c.id /\ q[Len(q)].params = c.params
         THEN SubSeq(q, 1, Len(q) - 1)
         ELSE Append(RemoveLastEqual(SubSeq(q, 1, Len(q) - 1), c), q[Len(q)])

\* The queue of a unit after CCommandAI::GiveCommand(c, fromSynced).
\* SHIFT_KEY in the options is the queueing flag: a queued order is appended,
\* or removes the equal order already queued; an order without it replaces the
\* queue.  A speed-match order always follows what is queued.
QueueAfterGiveCommand(q, c) ==
    IF c.id = CMD_SET_WANTED_MAX_SPEED THEN Append(q, c)
    ELSE IF SHIFT_KEY \in c.options
         THEN IF WillCancelQueued(q, c) THEN RemoveLastEqual(q, c) ELSE Append(q, c)
         ELSE <<c>>

(* The running state of one GiveCommandNet call is the record m:             *)
(*   m.ai  handler fields, m.que  the queues, m.given  GiveCommand calls,   *)
(*   m.acks  acknowledged wait orders, m.faults  undefined behaviour met,    *)
(*   m.rows  the formation rows closed (groups, orders, mixed units, counts),*)
(*   m.looks  per placed unit, the row-break decisions taken for it,         *)
(*   m.alive  the live units, m.sel  netSelected[player],                    *)
(*   m.quad  the listing order of the quad field,                            *)
(*   m.branch  the branch of GiveCommandNet that ran.                        *)

\* unit->commandAI->GiveCommand(c, fromSynced)
GiveCommand(m, u, c, fromSynced) ==
    [m EXCEPT !.que[u] = QueueAfterGiveCommand(@, c),
              !.given = Append(@, [unit |-> u, cmd |-> c, fromSynced |-> fromSynced])]

---------------------------------------------------------------------------
(* Speed-match orders *)

AddUnitSetMaxSpeedCommandNet(m, u, options) ==
    IF ~CanSetMaxSpeed(u) THEN m
    ELSE GiveCommand(m, u,
             Command(CMD_SET_WANTED_MAX_SPEED, options, <<Unit(u).maxSpeed>>), TRUE)

\* Faulty variant of AddGroupSetMaxSpeedCommandNet: CanSetMaxSpeed is not asked
AddGroupSetMaxSpeedCommandNetUnasked(m, u, options) ==
    GiveCommand(m, u,
        Command(CMD_SET_WANTED_MAX_SPEED, options, <<m.ai.groupMinMaxSpeed>>), TRUE)

AddGroupSetMaxSpeedCommandNet(m, u, options) ==
    IF ~CanSetMaxSpeed(u) THEN m
    ELSE GiveCommand(m, u,
             Command(CMD_SET_WANTED_MAX_SPEED, options, <<m.ai.groupMinMaxSpeed>>), TRUE)

\* Faulty variant of MayRequireSetMaxSpeedCommand: only stop is excluded
MayRequireUnlessStop(c) == c.id # CMD_STOP

MayRequireSetMaxSpeedCommand(c) ==
    c.id \notin {CMD_STOP, CMD_WAIT, CMD_SELFD, CMD_FIRE_STATE, CMD_MOVE_STATE,
                 CMD_ONOFF, CMD_REPEAT}

\* waitCommandsAI.AcknowledgeCommand(c)
AcknowledgeCommand(m) == [m EXCEPT !.acks = @ + 1]

\* the group- or per-unit speed-match loops that end the formation branches
RECURSIVE SpeedLoop(_, _, _, _)
SpeedLoop(m, i, groupSpeed, options) ==
    IF i > Len(m.sel) THEN m
    ELSE LET u == m.sel[i]
         IN  IF ~GetUnit(m.alive, u) THEN SpeedLoop(m, i + 1, groupSpeed, options)
             ELSE SpeedLoop(IF groupSpeed
                               THEN AddGroupSetMaxSpeedCommandNet(m, u, options)
                               ELSE AddUnitSetMaxSpeedCommandNet(m, u, options),
                            i + 1, groupSpeed, options)

\* Faulty variant of GiveSingle: the kind of the order is not looked at
GiveSingleAnyKind(m, c, player) ==
    LET u == m.sel[1]
    IN  IF ~GetUnit(m.alive, u) THEN m
        ELSE LET m2 == AddUnitSetMaxSpeedCommandNet(GiveCommand(m, u, c, TRUE), u, c.options)
             IN  IF c.id = CMD_WAIT /\ player = myPlayerNum
                    THEN AcknowledgeCommand(m2)
                    ELSE m2

\* GiveCommandNet, one unit selected
GiveSingle(m, c, player) ==
    LET u == m.sel[1]
    IN  IF ~GetUnit(m.alive, u) THEN m
        ELSE LET m1 == GiveCommand(m, u, c, TRUE)
                 m2 == IF MayRequireSetMaxSpeedCommand(c)
                          THEN AddUnitSetMaxSpeedCommandNet(m1, u, c.options)
                          ELSE m1
             IN  IF c.id = CMD_WAIT /\ player = myPlayerNum
                    THEN AcknowledgeCommand(m2)
                    ELSE m2

RECURSIVE BroadcastLoop(_, _, _)
\* Faulty variant of BroadcastLoop: a stale identifier ends the loop
BroadcastLoopStopsAtStale(m, i, c) ==
    IF i > Len(m.sel) THEN m
    ELSE LET u == m.sel[i]
         IN  IF ~GetUnit(m.alive, u) THEN m
             ELSE LET m1 == GiveCommand(m, u, c, TRUE)
                  IN  IF ~MayRequireSetMaxSpeedCommand(c)
                         THEN BroadcastLoop(m1, i + 1, c)
                         ELSE BroadcastLoop(
                                  AddUnitSetMaxSpeedCommandNet(m1, u, c.options), i + 1, c)

BroadcastLoop(m, i, c) ==
    IF i > Len(m.sel) THEN m
    ELSE LET u == m.sel[i]
         IN  IF ~GetUnit(m.alive, u) THEN BroadcastLoop(m, i + 1, c)
             ELSE LET m1 == GiveCommand(m, u, c, TRUE)
                  IN  IF ~MayRequireSetMaxSpeedCommand(c)
                         THEN BroadcastLoop(m1, i + 1, c)
                         ELSE BroadcastLoop(
                                  AddUnitSetMaxSpeedCommandNet(m1, u, c.options), i + 1, c)

\* Faulty variant of GiveBroadcast: the order goes to the units the local
\* player has selected, whoever gave it
GiveBroadcastLocalSelection(m, c, player) ==
    LET m1 == BroadcastLoop([m EXCEPT !.sel = netSelected[myPlayerNum]], 1, c)
    IN  IF c.id # CMD_WAIT THEN m1
        ELSE IF player # myPlayerNum THEN m1
        ELSE AcknowledgeCommand(m1)

\* GiveCommandNet, the last branch: the order goes to every selected unit
GiveBroadcast(m, c, player) ==
    LET m1 == BroadcastLoop(m, 1, c)
    IN  IF c.id # CMD_WAIT THEN m1
        ELSE IF player # myPlayerNum THEN m1
        ELSE AcknowledgeCommand(m1)

---------------------------------------------------------------------------
(* Group geometry *)

RECURSIVE LastQueuePositionFrom(_, _, _)
LastQueuePositionFrom(q, i, u) ==
    IF i < 1 THEN Unit(u).midPos
    ELSE IF Len(q[i].params) >= 3 THEN GetPos(q[i], 0)
    ELSE LastQueuePositionFrom(q, i - 1, u)

\* Faulty variant of LastQueuePosition: only the last queued order is looked at
LastQueuePositionOfLastOrder(q, u) ==
    IF q # <<>> /\ Len(q[Len(q)].params) >= 3 THEN GetPos(q[Len(q)], 0)
    ELSE Unit(u).midPos

\* the position of the last queued order that has one, else the unit's own
LastQueuePosition(q, u) == LastQueuePositionFrom(q, Len(q), u)

\* queueing ? LastQueuePosition(unit) : unit->midPos
ReferencePos(m, u, queueing) ==
    IF queueing THEN LastQueuePosition(m.que[u], u) ELSE Unit(u).midPos

\* the locals of CalculateGroupData after one more unit at unitPos is counted
AddToGroupData(a, u, unitPos) ==
    IF ~CanSetMaxSpeed(u)
       THEN [a EXCEPT
                !.groupSumLength = @ + (P(Unit(u).xsize + Unit(u).zsize) \div 2),
                !.sumCoor = VAdd(@, unitPos)]
       ELSE [a EXCEPT
                !.groupSumLength = @ + (P(Unit(u).xsize + Unit(u).zsize) \div 2),
                !.sumCoor = VAdd(@, unitPos),
                !.mobileUnits = @ + 1,
                !.mobileSumCoor = VAdd(@, unitPos),
                !.groupMinMaxSpeed = Min(@, Unit(u).maxSpeed)]

RECURSIVE GroupDataLoop(_, _, _, _)
\* the loop of CalculateGroupData; a holds its locals and the two fields it sets
GroupDataLoop(m, i, queueing, a) ==
    IF i > Len(m.sel) THEN a
    ELSE IF ~GetUnit(m.alive, m.sel[i]) THEN GroupDataLoop(m, i + 1, queueing, a)
    ELSE GroupDataLoop(m, i + 1, queueing,
                       AddToGroupData(a, m.sel[i], ReferencePos(m, m.sel[i], queueing)))

\* Faulty variant of SetGroupData: the mobile sum is divided by the mobile
\* count whatever the count
SetGroupDataUnguarded(m, a) ==
    [m EXCEPT
        !.ai.groupSumLength = a.groupSumLength,
        !.ai.groupMinMaxSpeed = a.groupMinMaxSpeed,
        !.ai.groupAvgLength = a.groupSumLength \div Len(m.sel),
        !.ai.groupCenterCoor =
            IF a.mobileUnits > 0
               THEN VDivInt(a.mobileSumCoor, a.mobileUnits)
               ELSE a.mobileSumCoor,
        !.faults = IF a.mobileUnits = 0 THEN @ \cup {"division by zero"} ELSE @]

\* the fields CalculateGroupData sets, from the locals a its loop leaves
SetGroupData(m, a) ==
    [m EXCEPT
        !.ai.groupSumLength = a.groupSumLength,
        !.ai.groupMinMaxSpeed = a.groupMinMaxSpeed,
        !.ai.groupAvgLength = a.groupSumLength \div Len(m.sel),
        !.ai.groupCenterCoor =
            IF a.mobileUnits > 0
               THEN VDivInt(a.mobileSumCoor, a.mobileUnits)
               ELSE VDivInt(a.sumCoor, Len(m.sel))]

CalculateGroupData(m, queueing) ==
    SetGroupData(m, GroupDataLoop(m, 1, queueing,
                        [sumCoor |-> ZeroVector, mobileSumCoor |-> ZeroVector,
                         mobileUnits |-> 0, groupSumLength |-> 0,
                         groupMinMaxSpeed |-> GROUP_SPEED_SENTINEL]))

---------------------------------------------------------------------------
(* Formation builder *)

\* Faulty variant of PairComp: not a strict order
PairCompNotStrict(a, b) == a[1] <= b[1]

\* idPairComp / ugPairComp: compare the float key only
PairComp(a, b) == a[1] < b[1]

RECURSIVE StableInsert(_, _)
\* x placed behind every element that does not compare greater than it
StableInsert(s, x) ==
    IF s = <<>> THEN <<x>>
    ELSE IF PairComp(x, s[Len(s)])
         THEN Append(StableInsert(SubSeq(s, 1, Len(s) - 1), x), s[Len(s)])
         ELSE Append(s, x)

RECURSIVE StableSort(_)
\* std::stable_sort(begin, end, idPairComp)
StableSort(s) ==
    IF Len(s) <= 1 THEN s
    ELSE StableInsert(StableSort(SubSeq(s, 1, Len(s) - 1)), s[Len(s)])

\* the formation priority of a unit
UnitOrderValue(u) ==
    LET range == IF Unit(u).maxRange < P(1) THEN P(WEAPONLESS_RANGE) ELSE Unit(u).maxRange
    IN  FMul(FDiv((Unit(u).metal * METAL_WEIGHT) + Unit(u).energy, Unit(u).health), range)

RECURSIVE UnitOrderPairs(_, _, _)
UnitOrderPairs(sel, alive, i) ==
    IF i > Len(sel) THEN <<>>
    ELSE IF ~GetUnit(alive, sel[i]) THEN UnitOrderPairs(sel, alive, i + 1)
    ELSE <<<<UnitOrderValue(sel[i]), sel[i]>>>> \o UnitOrderPairs(sel, alive, i + 1)

\* CreateUnitOrder(out, player): <priority, unitID> pairs in ascending priority
CreateUnitOrder(sel, alive) == StableSort(UnitOrderPairs(sel, alive, 1))

\* index of the first group whose priority is not less than value, or size + 1
LowerBound(groups, value) ==
    IF \E i \in 1..Len(groups) : ~(groups[i][1] < value)
       THEN CHOOSE i \in 1..Len(groups) :
                /\ ~(groups[i][1] < value)
                /\ \A j \in 1..(i - 1) : groups[j][1] < value
       ELSE Len(groups) + 1

RECURSIVE SwapIntoPosition(_, _)
\* the last group, at index i, swapped down until its predecessor is smaller
SwapIntoPosition(groups, i) ==
    IF i <= 1 THEN groups
    ELSE IF PairComp(groups[i - 1], groups[i]) THEN groups
    ELSE SwapIntoPosition(
             [groups EXCEPT ![i - 1] = groups[i], ![i] = groups[i - 1]], i - 1)

\* Faulty variant of AddToUnitGroups: a unit of a known priority takes the place
\* of its bucket's units instead of joining them
AddToUnitGroupsReplaces(groups, suPair) ==
    LET it == LowerBound(groups, suPair[1])
    IN  IF it > Len(groups) \/ groups[it][1] # suPair[1]
           THEN SwapIntoPosition(Append(groups, <<suPair[1], <<suPair[2]>>>>),
                                 Len(groups) + 1)
           ELSE [groups EXCEPT ![it] = <<@[1], <<suPair[2]>>>>]

\* sortedUnitGroups after the <priority, unitID> pair suPair is added to it
AddToUnitGroups(groups, suPair) ==
    LET it == LowerBound(groups, suPair[1])
    IN  IF it > Len(groups) \/ groups[it][1] # suPair[1]
           THEN SwapIntoPosition(Append(groups, <<suPair[1], <<suPair[2]>>>>),
                                 Len(groups) + 1)
           ELSE [groups EXCEPT ![it] = <<@[1], Append(@[2], suPair[2])>>]

\* a slot position in front coordinates, rotated and moved to the map
FrontToMap(a, formationDir, x, z) ==
    LET cosv == FDiv(formationDir[1], formationDir[2])
        sinv == FDiv(formationDir[3], formationDir[2])
        OnGround(px, pz) == <<px, GetHeightAboveWater(px, pz), pz>>
    IN  OnGround(a.formationRightPos[1] + FMul(x, cosv) - FMul(z, sinv),
                 a.formationRightPos[3] + FMul(x, sinv) + FMul(z, cosv))

\* Faulty variant of MoveToPosSlot: the slot's order never has the queueing flag
MoveToPosSlotUnqueued(a, corner, newline, formationDir, u, command, unitSize) ==
    LET atStart == corner[1] = 0
        retX == corner[1] + P(unitSize * SQUARE_SIZE * 2) + a.groupAddedSpace
        movX == corner[1] + P(unitSize * SQUARE_SIZE) + a.groupAddedSpace
    IN  [pos |-> <<IF atStart THEN retX - a.groupAddedSpace ELSE retX, 0, corner[3]>>,
         newline |-> newline,
         cmds |-> << <<u, Command(command.id, command.options \ {SHIFT_KEY},
                          FrontToMap(a, formationDir,
                                     IF atStart THEN P(unitSize * SQUARE_SIZE) ELSE movX,
                                     corner[3]))>> >>]

\* MoveToPos past its early returns: the order pushed and the corner returned
MoveToPosSlot(a, corner, newline, formationDir, u, command, unitSize) ==
    LET atStart == corner[1] = 0
        retX == corner[1] + P(unitSize * SQUARE_SIZE * 2) + a.groupAddedSpace
        movX == corner[1] + P(unitSize * SQUARE_SIZE) + a.groupAddedSpace
    IN  [pos |-> <<IF atStart THEN retX - a.groupAddedSpace ELSE retX, 0, corner[3]>>,
         newline |-> newline,
         cmds |-> << <<u, Command(command.id, command.options,
                          FrontToMap(a, formationDir,
                                     IF atStart THEN P(unitSize * SQUARE_SIZE) ELSE movX,
                                     corner[3]))>> >>]

\* Faulty variant of MoveToPosLine: a new row is stepped back by half the depth
MoveToPosLineHalfStep(a, nextCornerPos, formationDir, u, command, withCmds, newline) ==
    IF ~withCmds
       THEN [pos |-> IF newline
                        THEN <<0, nextCornerPos[2],
                               nextCornerPos[3] - (a.groupAvgLength * SQUARE_SIZE)>>
                        ELSE nextCornerPos,
             newline |-> newline, cmds |-> <<>>]
       ELSE MoveToPosSlot(a,
                IF newline
                   THEN <<0, nextCornerPos[2],
                          nextCornerPos[3] - (a.groupAvgLength * SQUARE_SIZE)>>
                   ELSE nextCornerPos,
                newline, formationDir, u, command,
                (Unit(u).xsize + Unit(u).zsize) \div 2)

\* MoveToPos once *newline is known
MoveToPosLine(a, nextCornerPos, formationDir, u, command, withCmds, newline) ==
    IF ~withCmds
       THEN [pos |-> IF newline
                        THEN <<0, nextCornerPos[2],
                               nextCornerPos[3] - (a.groupAvgLength * 2 * SQUARE_SIZE)>>
                        ELSE nextCornerPos,
             newline |-> newline, cmds |-> <<>>]
       ELSE MoveToPosSlot(a,
                IF newline
                   THEN <<0, nextCornerPos[2],
                          nextCornerPos[3] - (a.groupAvgLength * 2 * SQUARE_SIZE)>>
                   ELSE nextCornerPos,
                newline, formationDir, u, command,
                (Unit(u).xsize + Unit(u).zsize) \div 2)

\* MoveToPos: [pos: the returned corner, newline, cmds: the order pushed, if any]
MoveToPos(a, nextCornerPos, formationDir, u, command, withCmds) ==
    MoveToPosLine(a, nextCornerPos, formationDir, u, command, withCmds,
                  (nextCornerPos[1] - a.groupAddedSpace) > a.groupFrontLength)

\* the group picked for one slot: lowest fill ratio among the groups not exhausted
\* the fill ratios are quotients of small integers, which float division
\* orders as the exact quotients are ordered: <<n, d>> stands for n / d
RatioGeq(a, b) == a[1] * b[2] >= b[1] * a[2]

RECURSIVE BestGroup(_, _, _, _, _)
\* Faulty variant of BestGroup: the first group not exhausted, whatever its ratio
BestGroupFirstOpen(groups, sizes, groupNum, bestGroupNum, bestGroupVal) ==
    IF groupNum > Len(groups) THEN bestGroupNum
    ELSE IF sizes[groupNum] >= Len(groups[groupNum][2])
         THEN BestGroup(groups, sizes, groupNum + 1, bestGroupNum, bestGroupVal)
         ELSE groupNum

\* the inner loop of the mixing: the group of the lowest (0.5 + filled) / size
BestGroup(groups, sizes, groupNum, bestGroupNum, bestGroupVal) ==
    IF groupNum > Len(groups) THEN bestGroupNum
    ELSE LET maxGroupSize == Len(groups[groupNum][2])
             curGroupSize == sizes[groupNum]
             groupVal == <<1 + (2 * curGroupSize), 2 * maxGroupSize>>
         IN  IF curGroupSize >= maxGroupSize
                THEN BestGroup(groups, sizes, groupNum + 1, bestGroupNum, bestGroupVal)
             ELSE IF RatioGeq(groupVal, bestGroupVal)
                THEN BestGroup(groups, sizes, groupNum + 1, bestGroupNum, bestGroupVal)
             ELSE BestGroup(groups, sizes, groupNum + 1, groupNum, groupVal)

RECURSIVE MixLoop(_, _, _, _, _)
\* Faulty variant of MixLoop: a bucket hands out its units from the back
MixLoopFromBack(groups, nCmds, j, ids, sizes) ==
    IF j > nCmds THEN [ids |-> ids, sizes |-> sizes, oob |-> FALSE]
    ELSE LET best == BestGroup(groups, sizes, 1, 1, <<1, 1>>)
         IN  IF best > Len(groups) \/ sizes[best] >= Len(groups[best][2])
                THEN [ids |-> ids, sizes |-> sizes, oob |-> TRUE]
                ELSE MixLoop(groups, nCmds, j + 1,
                             Append(ids, groups[best][2][Len(groups[best][2]) - sizes[best]]),
                             [sizes EXCEPT ![best] = @ + 1])

\* the mixing loop: [ids: mixedUnitIDs, sizes: mixedGroupSizes, oob: index past the end]
MixLoop(groups, nCmds, j, ids, sizes) ==
    IF j > nCmds THEN [ids |-> ids, sizes |-> sizes, oob |-> FALSE]
    ELSE LET best == BestGroup(groups, sizes, 1, 1, <<1, 1>>)
         IN  IF best > Len(groups) \/ sizes[best] >= Len(groups[best][2])
                THEN [ids |-> ids, sizes |-> sizes, oob |-> TRUE]
                ELSE MixLoop(groups, nCmds, j + 1,
                             Append(ids, groups[best][2][sizes[best] + 1]),
                             [sizes EXCEPT ![best] = @ + 1])

RECURSIVE GiveRow(_, _)
\* the row's orders, each to the unit mixed into its slot
GiveRow(m, i) ==
    IF i > Len(m.ai.frontMoveCommands) THEN m
    ELSE IF i > Len(m.ai.mixedUnitIDs)
         THEN [m EXCEPT !.faults = @ \cup {"index out of range"}]
    ELSE IF ~GetUnit(m.alive, m.ai.mixedUnitIDs[i])
         THEN [m EXCEPT !.faults = @ \cup {"null unit dereferenced"}]
    ELSE GiveRow(GiveCommand(m, m.ai.mixedUnitIDs[i], m.ai.frontMoveCommands[i][2], FALSE),
                 i + 1)

\* the row given to its mixed units; m is the state the row was closed in
GiveMixedRow(m, mix) ==
    GiveRow([m EXCEPT !.ai.mixedUnitIDs = mix.ids,
                      !.ai.mixedGroupSizes = mix.sizes,
                      !.faults = IF mix.oob THEN @ \cup {"index out of range"} ELSE @,
                      !.rows = Append(@, [groups |-> m.ai.sortedUnitGroups,
                                          cmds |-> m.ai.frontMoveCommands,
                                          mixed |-> mix.ids,
                                          sizes |-> mix.sizes])],
            1)

\* the mixing of the open row
MixRow(m) ==
    MixLoop(m.ai.sortedUnitGroups, Len(m.ai.frontMoveCommands), 1, <<>>,
            [g \in 1..Len(m.ai.sortedUnitGroups) |-> 0])

\* Faulty variant of FlushRow: the priority buckets are not cleared with the row
FlushRowKeepsGroups(m) ==
    [GiveMixedRow(m, MixRow(m)) EXCEPT !.ai.frontMoveCommands = <<>>]

\* a closed row: mix, give, clear
FlushRow(m) ==
    [GiveMixedRow(m, MixRow(m)) EXCEPT !.ai.frontMoveCommands = <<>>,
                                       !.ai.sortedUnitGroups = <<>>]

RECURSIVE FormationLoop(_, _, _, _, _)
\* the rest of one turn of the loop, once the unit is placed; ahead is the
\* look-ahead call of MoveToPos for the next corner
FormationPlaced(m, k, formationSideDir, c, placed, ahead) ==
    IF (k + 1) <= Len(m.ai.sortedUnitPairs) /\ ~ahead.newline
       THEN FormationLoop(
                [m EXCEPT
                    !.ai.sortedUnitGroups = AddToUnitGroups(@, m.ai.sortedUnitPairs[k]),
                    !.ai.frontMoveCommands = @ \o placed.cmds,
                    !.looks = Append(@, [unit |-> m.ai.sortedUnitPairs[k][2],
                                         placed |-> placed.newline,
                                         looked |-> (k + 1) <= Len(m.ai.sortedUnitPairs),
                                         ahead |-> (k + 1) <= Len(m.ai.sortedUnitPairs)
                                                       /\ ahead.newline,
                                         row |-> Len(m.rows) + 1])],
                k + 1, placed.pos, formationSideDir, c)
       ELSE FormationLoop(
                FlushRow([m EXCEPT
                    !.ai.sortedUnitGroups = AddToUnitGroups(@, m.ai.sortedUnitPairs[k]),
                    !.ai.frontMoveCommands = @ \o placed.cmds,
                    !.looks = Append(@, [unit |-> m.ai.sortedUnitPairs[k][2],
                                         placed |-> placed.newline,
                                         looked |-> (k + 1) <= Len(m.ai.sortedUnitPairs),
                                         ahead |-> (k + 1) <= Len(m.ai.sortedUnitPairs)
                                                       /\ ahead.newline,
                                         row |-> Len(m.rows) + 1])]),
                k + 1, placed.pos, formationSideDir, c)

\* Faulty variant of FormationPlace: the look-ahead is made from the start of
\* the row, not from the corner the placed unit left
FormationPlaceLooksFromStart(m, k, formationSideDir, c, placed) ==
    FormationPlaced(m, k, formationSideDir, c, placed,
        MoveToPos(m.ai, <<0, placed.pos[2], placed.pos[3]>>, formationSideDir,
                  m.ai.sortedUnitPairs[k][2], c, FALSE))

\* one turn of the loop from the corner the unit was placed at
FormationPlace(m, k, formationSideDir, c, placed) ==
    FormationPlaced(m, k, formationSideDir, c, placed,
        MoveToPos(m.ai, placed.pos, formationSideDir, m.ai.sortedUnitPairs[k][2], c, FALSE))

\* the loop over sortedUnitPairs; nextPos is the corner in front coordinates
FormationLoop(m, k, nextPos, formationSideDir, c) ==
    IF k > Len(m.ai.sortedUnitPairs) THEN m
    ELSE FormationPlace(m, k, formationSideDir, c,
             MoveToPos(m.ai, nextPos, formationSideDir, m.ai.sortedUnitPairs[k][2], c, TRUE))

RECURSIVE FallbackLoop(_, _, _)
\* the front is too short: the order itself, to every selected unit
FallbackLoop(m, i, c) ==
    IF i > Len(m.sel) THEN m
    ELSE IF ~GetUnit(m.alive, m.sel[i]) THEN FallbackLoop(m, i + 1, c)
    ELSE FallbackLoop(GiveCommand(m, m.sel[i], c, FALSE), i + 1, c)

\* Faulty variant of FrontTooShort: the margin of 33 is left out
FrontTooShortNoMargin(c, n) == VDistance(GetPos(c, 0), GetPos(c, 3)) < P(n)

\* formationCenterPos.distance(formationRightPos) < playerUnitIDs.size() + 33
FrontTooShort(c, n) == VDistance(GetPos(c, 0), GetPos(c, 3)) < P(n + MIN_FRONT_EXCESS)

\* Faulty variant of MakeFormationFrontOrder: groupAddedSpace is not reset, so
\* a front with no room to spare keeps the spacing of an earlier order
MakeFormationFrontOrderKeepsSpace(m, c) ==
    LET centerPos == GetPos(c, 0)
        rightPos == GetPos(c, 3)
        n == Len(m.sel)
        m0 == [m EXCEPT !.ai.formationCenterPos = centerPos,
                        !.ai.formationRightPos = rightPos]
    IN  IF FrontTooShort(c, n) THEN FallbackLoop(m0, 1, c)
        ELSE LET frontLength == VDistance(centerPos, rightPos) * 2
                 needed == m.ai.groupSumLength * 2 * SQUARE_SIZE
                 addedSpace == IF frontLength > needed
                                  THEN (frontLength - needed) \div (n - 1)
                                  ELSE m.ai.groupAddedSpace
                 sideDir == VAdd(VXZ(VSub(centerPos, rightPos)),
                                 <<0, frontLength \div 2, 0>>)
                 m1 == [m0 EXCEPT !.ai.groupFrontLength = frontLength,
                                  !.ai.groupAddedSpace = addedSpace,
                                  !.ai.sortedUnitGroups = <<>>,
                                  !.ai.frontMoveCommands = <<>>,
                                  !.ai.sortedUnitPairs = CreateUnitOrder(m.sel, m.alive)]
             IN  FormationLoop(m1, 1, ZeroVector, sideDir, c)

\* MakeFormationFrontOrder(c, player)
MakeFormationFrontOrder(m, c) ==
    LET centerPos == GetPos(c, 0)
        rightPos == GetPos(c, 3)
        n == Len(m.sel)
        m0 == [m EXCEPT !.ai.formationCenterPos = centerPos,
                        !.ai.formationRightPos = rightPos]
    IN  IF FrontTooShort(c, n) THEN FallbackLoop(m0, 1, c)
        ELSE LET frontLength == VDistance(centerPos, rightPos) * 2
                 needed == m.ai.groupSumLength * 2 * SQUARE_SIZE
                 addedSpace == IF frontLength > needed
                                  THEN (frontLength - needed) \div (n - 1)
                                  ELSE 0
                 sideDir == VAdd(VXZ(VSub(centerPos, rightPos)),
                                 <<0, frontLength \div 2, 0>>)
                 m1 == [m0 EXCEPT !.ai.groupFrontLength = frontLength,
                                  !.ai.groupAddedSpace = addedSpace,
                                  !.ai.sortedUnitGroups = <<>>,
                                  !.ai.frontMoveCommands = <<>>,
                                  !.ai.sortedUnitPairs = CreateUnitOrder(m.sel, m.alive)]
             IN  FormationLoop(m1, 1, ZeroVector, sideDir, c)

---------------------------------------------------------------------------
(* Target assignment *)

\* playerHandler.IsValidPlayer(player) and playerHandler.Player(player) # nullptr
IsValidPlayer(player) == player \in Players

\* quadField.GetUnitsExact(pos, radius): the broad phase lists the live units of
\* the quads the circle touches, here those inside its bounding square
QuadUnitsCircle(m, pos, radius) ==
    LET In(u) == /\ GetUnit(m.alive, u)
                 /\ Abs(Unit(u).midPos[1] - pos[1]) <= radius
                 /\ Abs(Unit(u).midPos[3] - pos[3]) <= radius
    IN  SelectSeq(m.quad, In)

\* quadField.GetUnitsExact(mins, maxs)
QuadUnitsRectangle(m, mins, maxs) ==
    LET In(u) == /\ GetUnit(m.alive, u)
                 /\ mins[1] <= Unit(u).midPos[1] /\ Unit(u).midPos[1] <= maxs[1]
                 /\ mins[3] <= Unit(u).midPos[3] /\ Unit(u).midPos[3] <= maxs[3]
    IN  SelectSeq(m.quad, In)

\* not of the player's ally team, and in its line of sight or on its radar
IsVisibleEnemy(u, allyTeam) ==
    /\ Unit(u).allyteam # allyTeam
    /\ LosStatus(u, allyTeam) \cap {LOS_INLOS, LOS_INRADAR} # {}

\* Faulty variant of SelectCircleUnits: the broad phase is taken as exact
SelectCircleUnitsBroad(m, pos, radius, player) ==
    IF ~IsValidPlayer(player) THEN <<>>
    ELSE LET Keep(u) == IsVisibleEnemy(u, AllyTeamOfPlayer(player))
         IN  SelectSeq(QuadUnitsCircle(m, pos, radius), Keep)

SelectCircleUnits(m, pos, radius, player) ==
    IF ~IsValidPlayer(player) THEN <<>>
    ELSE LET allyTeam == AllyTeamOfPlayer(player)
             radiusSqr == FMul(radius, radius)
             Keep(u) ==
                 LET dx == pos[1] - Unit(u).midPos[1]
                     dz == pos[3] - Unit(u).midPos[3]
                 IN  /\ IsVisibleEnemy(u, allyTeam)
                     /\ ~((FMul(dx, dx) + FMul(dz, dz)) > radiusSqr)
         IN  SelectSeq(QuadUnitsCircle(m, pos, radius), Keep)

SelectRectangleUnits(m, pos0, pos1, player) ==
    IF ~IsValidPlayer(player) THEN <<>>
    ELSE LET allyTeam == AllyTeamOfPlayer(player)
             mins == <<Min(pos0[1], pos1[1]), 0, Min(pos0[3], pos1[3])>>
             maxs == <<-Min(-pos0[1], -pos1[1]), 0, -Min(-pos0[3], -pos1[3])>>
             Keep(u) == IsVisibleEnemy(u, allyTeam)
         IN  SelectSeq(QuadUnitsRectangle(m, mins, maxs), Keep)

RECURSIVE CancelTargets(_, _, _, _)
\* CONTROL: for one unit, the attack orders that cancel a queued one
CancelTargets(m, u, t, attackCmd) ==
    IF t > Len(m.ai.targetUnitIDs) THEN m
    ELSE LET ac == [attackCmd EXCEPT !.params[1] = m.ai.targetUnitIDs[t]]
         IN  IF ~WillCancelQueued(m.que[u], ac) THEN CancelTargets(m, u, t + 1, ac)
             ELSE CancelTargets(GiveCommand(m, u, ac, TRUE), u, t + 1, ac)

RECURSIVE CancelLoop(_, _, _)
CancelLoop(m, s, attackCmd) ==
    IF s > Len(m.sel) THEN m
    ELSE IF ~GetUnit(m.alive, m.sel[s]) THEN CancelLoop(m, s + 1, attackCmd)
    ELSE CancelLoop(CancelTargets(m, m.sel[s], 1, attackCmd), s + 1, attackCmd)

RECURSIVE AttackCenterSum(_, _, _)
\* [sum: the summed reference positions, realCount: the live units summed]
AttackCenterSum(m, s, queueing) ==
    IF s > Len(m.sel) THEN [sum |-> ZeroVector, realCount |-> 0]
    ELSE LET rest == AttackCenterSum(m, s + 1, queueing)
         IN  IF ~GetUnit(m.alive, m.sel[s]) THEN rest
             ELSE [sum |-> VAdd(ReferencePos(m, m.sel[s], queueing), rest.sum),
                   realCount |-> rest.realCount + 1]

\* Faulty variant of TargetPairs: the height difference counts in the distance
TargetPairsSpatial(targets, midPos) ==
    [t \in 1..Len(targets) |->
        LET d == VSub(Unit(targets[t]).midPos, midPos)
        IN  <<SqLength2D(d) + FMul(d[2], d[2]), targets[t]>>]

\* <squared planar distance from midPos, target> for every target, in list order
TargetPairs(targets, midPos) ==
    [t \in 1..Len(targets) |->
        <<SqLength2D(VSub(Unit(targets[t]).midPos, midPos)), targets[t]>>]

RECURSIVE AttackTargets(_, _, _, _, _)
\* Faulty variant of AttackTargets: the queueing flag is not set after an order
AttackTargetsNeverQueued(m, u, t, options, queueing) ==
    IF t > Len(m.ai.targetUnitIDs) THEN [m |-> m, options |-> options]
    ELSE LET ac == Command(CMD_ATTACK, options, <<m.ai.sortedUnitPairs[t][2]>>)
         IN  IF queueing /\ WillCancelQueued(m.que[u], ac)
                THEN AttackTargets(m, u, t + 1, options, queueing)
                ELSE AttackTargets(
                         AddUnitSetMaxSpeedCommandNet(GiveCommand(m, u, ac, TRUE), u, options),
                         u, t + 1, options, queueing)

\* for one unit: [m, options: attackCmd.options after the loop]
AttackTargets(m, u, t, options, queueing) ==
    IF t > Len(m.ai.targetUnitIDs) THEN [m |-> m, options |-> options]
    ELSE LET ac == Command(CMD_ATTACK, options, <<m.ai.sortedUnitPairs[t][2]>>)
         IN  IF queueing /\ WillCancelQueued(m.que[u], ac)
                THEN AttackTargets(m, u, t + 1, options, queueing)
                ELSE AttackTargets(
                         AddUnitSetMaxSpeedCommandNet(GiveCommand(m, u, ac, TRUE), u, options),
                         u, t + 1, options \cup {SHIFT_KEY}, queueing)

RECURSIVE AttackLoop(_, _, _, _)
\* Faulty variant of AttackLoop: the queueing flag is not cleared for each unit
AttackLoopKeepsFlag(m, s, options, queueing) ==
    IF s > Len(m.sel) THEN m
    ELSE IF ~GetUnit(m.alive, m.sel[s]) THEN AttackLoop(m, s + 1, options, queueing)
    ELSE LET r == AttackTargets(m, m.sel[s], 1, options, queueing)
         IN  AttackLoop(r.m, s + 1, r.options, queueing)

AttackLoop(m, s, options, queueing) ==
    IF s > Len(m.sel) THEN m
    ELSE LET opts == IF ~queueing THEN options \ {SHIFT_KEY} ELSE options
         IN  IF ~GetUnit(m.alive, m.sel[s]) THEN AttackLoop(m, s + 1, opts, queueing)
             ELSE LET r == AttackTargets(m, m.sel[s], 1, opts, queueing)
                  IN  AttackLoop(r.m, s + 1, r.options, queueing)

\* CONTROL: delete the queued attack orders on the targets, and nothing else
\* Faulty variant of CancelAttacks: the queueing flag is not added
CancelAttacksUnqueued(m, cmd) ==
    CancelLoop(m, 1, Command(CMD_ATTACK, cmd.options, <<0>>))

CancelAttacks(m, cmd) ==
    CancelLoop(m, 1, Command(CMD_ATTACK, cmd.options \cup {SHIFT_KEY}, <<0>>))

\* Faulty variant of AssignAttacks: the sum is divided whatever the count
AssignAttacksUnguarded(m, cmd, queueing) ==
    LET center == AttackCenterSum(m, 1, queueing)
        midPos == IF center.realCount = 0 THEN center.sum
                  ELSE VDivInt(center.sum, center.realCount)
        m1 == [m EXCEPT !.ai.sortedUnitPairs =
                            StableSort(TargetPairs(m.ai.targetUnitIDs, midPos)),
                        !.faults = IF center.realCount = 0
                                      THEN @ \cup {"division by zero"} ELSE @]
    IN  AttackLoop(m1, 1, cmd.options, queueing)

\* no CONTROL: rank the targets from the group center and give the attack orders
AssignAttacks(m, cmd, queueing) ==
    LET center == AttackCenterSum(m, 1, queueing)
    IN  IF center.realCount = 0 THEN m
        ELSE LET midPos == VDivInt(center.sum, center.realCount)
                 m1 == [m EXCEPT !.ai.sortedUnitPairs =
                                     StableSort(TargetPairs(m.ai.targetUnitIDs, midPos))]
             IN  AttackLoop(m1, 1, cmd.options, queueing)

\* Faulty variant of SelectAttackNet: the queueing flag of the order is not read
SelectAttackNetNeverQueueing(m, cmd, player) ==
    LET targets == IF Len(cmd.params) = 4
                      THEN SelectCircleUnits(m, GetPos(cmd, 0), cmd.params[4], player)
                      ELSE SelectRectangleUnits(m, GetPos(cmd, 0), GetPos(cmd, 3), player)
        m0 == [m EXCEPT !.ai.sortedUnitPairs = <<>>, !.ai.targetUnitIDs = targets]
    IN  IF targets = <<>> THEN m0
        ELSE IF Len(m.sel) = 0 THEN m0
        ELSE IF CONTROL_KEY \in cmd.options THEN CancelAttacks(m0, cmd)
        ELSE AssignAttacks(m0, cmd, FALSE)

SelectAttackNet(m, cmd, player) ==
    LET targets == IF Len(cmd.params) = 4
                      THEN SelectCircleUnits(m, GetPos(cmd, 0), cmd.params[4], player)
                      ELSE SelectRectangleUnits(m, GetPos(cmd, 0), GetPos(cmd, 3), player)
        m0 == [m EXCEPT !.ai.sortedUnitPairs = <<>>, !.ai.targetUnitIDs = targets]
    IN  IF targets = <<>> THEN m0
        ELSE IF Len(m.sel) = 0 THEN m0
        ELSE IF CONTROL_KEY \in cmd.options THEN CancelAttacks(m0, cmd)
        ELSE AssignAttacks(m0, cmd, SHIFT_KEY \in cmd.options)

---------------------------------------------------------------------------
(* Command dispatch *)

\* CMD_ATTACK with 6 parameters, or with 4 and a radius above 0.001
IsAreaAttack(c) ==
    /\ c.id = CMD_ATTACK
    /\ \/ Len(c.params) = 6
       \/ Len(c.params) = 4 /\ (c.params[4] * 1000) > FP

\* Faulty variant of GiveFront: the group variant is chosen as in the
\* relative-offset branch, by the absence of ALT
GiveFrontSpeedByAlt(m, c) ==
    LET m1 == CalculateGroupData(m, SHIFT_KEY \in c.options)
        m2 == MakeFormationFrontOrder(m1, c)
    IN  SpeedLoop(m2, 1, ALT_KEY \notin c.options, c.options)

\* move/fight with an explicit front line
GiveFront(m, c) ==
    LET m1 == CalculateGroupData(m, SHIFT_KEY \in c.options)
        m2 == MakeFormationFrontOrder(m1, c)
    IN  SpeedLoop(m2, 1, CONTROL_KEY \in c.options, c.options)

\* ALT move: a front is synthesized at the target, square to the approach
GiveAltFront(m, c) ==
    LET m1 == CalculateGroupData(m, SHIFT_KEY \in c.options)
        pos == GetPos(c, 0)
        frontDir == ANormalize(VXZ(VSub(pos, m1.ai.groupCenterCoor)))
        sideDir == CrossUp(frontDir)
        length == P(ALT_FRONT_BASE) + FMul(FSqrt(P(Len(m.sel))), P(ALT_FRONT_PER_UNIT))
        c6 == PushPos(c, VAdd(pos, VScale(sideDir, length)))
        m2 == MakeFormationFrontOrder(m1, c6)
    IN  SpeedLoop(m2, 1, CONTROL_KEY \in c.options, c.options)

RECURSIVE RelativeLoop(_, _, _, _, _)
\* Faulty variant of RelativeLoop: the offset is always taken from where the
\* unit stands, also for a queued order
RelativeLoopFromCurrent(m, i, c, groupSpeed, queueing) ==
    IF i > Len(m.sel) THEN m
    ELSE LET u == m.sel[i]
         IN  IF ~GetUnit(m.alive, u) THEN RelativeLoop(m, i + 1, c, groupSpeed, queueing)
             ELSE LET difPos == VSub(Unit(u).midPos, m.ai.groupCenterCoor)
                      uc == [c EXCEPT !.params[CMDPARAM_MOVE_X] = @ + difPos[1],
                                      !.params[CMDPARAM_MOVE_Y] = @ + difPos[2],
                                      !.params[CMDPARAM_MOVE_Z] = @ + difPos[3]]
                      m1 == GiveCommand(m, u, uc, TRUE)
                  IN  RelativeLoop(IF groupSpeed
                                      THEN AddGroupSetMaxSpeedCommandNet(m1, u, c.options)
                                      ELSE AddUnitSetMaxSpeedCommandNet(m1, u, c.options),
                                   i + 1, c, groupSpeed, queueing)

RelativeLoop(m, i, c, groupSpeed, queueing) ==
    IF i > Len(m.sel) THEN m
    ELSE LET u == m.sel[i]
         IN  IF ~GetUnit(m.alive, u) THEN RelativeLoop(m, i + 1, c, groupSpeed, queueing)
             ELSE LET midPos == ReferencePos(m, u, queueing)
                      difPos == VSub(midPos, m.ai.groupCenterCoor)
                      uc == [c EXCEPT !.params[CMDPARAM_MOVE_X] = @ + difPos[1],
                                      !.params[CMDPARAM_MOVE_Y] = @ + difPos[2],
                                      !.params[CMDPARAM_MOVE_Z] = @ + difPos[3]]
                      m1 == GiveCommand(m, u, uc, TRUE)
                  IN  RelativeLoop(IF groupSpeed
                                      THEN AddGroupSetMaxSpeedCommandNet(m1, u, c.options)
                                      ELSE AddUnitSetMaxSpeedCommandNet(m1, u, c.options),
                                   i + 1, c, groupSpeed, queueing)

\* CONTROL move/patrol/fight: every unit keeps its offset from the group center
GiveRelative(m, c) ==
    LET m1 == CalculateGroupData(m, SHIFT_KEY \in c.options)
    IN  RelativeLoop(m1, 1, c, ALT_KEY \notin c.options, SHIFT_KEY \in c.options)

\* the branches of GiveCommandNet, in the order they are tested
NO_UNITS == "no units to command"
TARGET_ASSIGNMENT == "SelectAttackNet"
SINGLE_UNIT == "single unit"
DRAWN_FRONT == "move front"
ALT_FRONT == "ALT group front"
RELATIVE_OFFSET == "CONTROL group locked"
BROADCAST == "broadcast"

\* m, having run branch b
Took(b, m) == [m EXCEPT !.branch = b]

\* Faulty variant of GiveCommandNetResult: the single unit is tested first and
\* the CONTROL branch before the ALT branch
GiveCommandNetResultReordered(m, c, player) ==
    LET nbrOfSelectedUnits == Len(m.sel)
    IN  IF nbrOfSelectedUnits < 1 THEN Took(NO_UNITS, m)
        ELSE IF nbrOfSelectedUnits = 1 THEN Took(SINGLE_UNIT, GiveSingle(m, c, player))
        ELSE IF IsAreaAttack(c) THEN Took(TARGET_ASSIGNMENT, SelectAttackNet(m, c, player))
        ELSE IF c.id \in {CMD_MOVE, CMD_FIGHT} /\ Len(c.params) = 6
             THEN Took(DRAWN_FRONT, GiveFront(m, c))
        ELSE IF CONTROL_KEY \in c.options /\ c.id \in {CMD_MOVE, CMD_PATROL, CMD_FIGHT}
             THEN Took(RELATIVE_OFFSET, GiveRelative(m, c))
        ELSE IF c.id = CMD_MOVE /\ ALT_KEY \in c.options
             THEN Took(ALT_FRONT, GiveAltFront(m, c))
        ELSE Took(BROADCAST, GiveBroadcast(m, c, player))

\* the state m after GiveCommandNet(c, player)
GiveCommandNetResult(m, c, player) ==
    LET nbrOfSelectedUnits == Len(m.sel)
    IN  IF nbrOfSelectedUnits < 1 THEN Took(NO_UNITS, m)
        ELSE IF IsAreaAttack(c) THEN Took(TARGET_ASSIGNMENT, SelectAttackNet(m, c, player))
        ELSE IF nbrOfSelectedUnits = 1 THEN Took(SINGLE_UNIT, GiveSingle(m, c, player))
        ELSE IF c.id \in {CMD_MOVE, CMD_FIGHT} /\ Len(c.params) = 6
             THEN Took(DRAWN_FRONT, GiveFront(m, c))
        ELSE IF c.id = CMD_MOVE /\ ALT_KEY \in c.options
             THEN Took(ALT_FRONT, GiveAltFront(m, c))
        ELSE IF CONTROL_KEY \in c.options /\ c.id \in {CMD_MOVE, CMD_PATROL, CMD_FIGHT}
             THEN Took(RELATIVE_OFFSET, GiveRelative(m, c))
        ELSE Took(BROADCAST, GiveBroadcast(m, c, player))

---------------------------------------------------------------------------
(* Inputs: the orders a player gives *)

V(x, y, z) == <<P(x), P(y), P(z)>>

MoveTarget == V(400, 0, 200)
FrontCenter == V(300, 0, 300)
\* second points of a drawn front, at distance 100, 38, 36, 20 and 40 (oblique)
FrontRightLong == V(400, 0, 300)
FrontRightRows == V(300, 0, 338)
FrontRightEdge == V(336, 0, 300)
FrontRightShort == V(320, 0, 300)
FrontRightOblique == V(324, 0, 332)
FrontRightNarrow == V(345, 0, 300)
FrontRightWide == V(500, 0, 300)

AreaCircleAll == V(200, 0, 200) \o <<P(150)>>
AreaCircleOne == V(200, 0, 200) \o <<P(120)>>
AreaCircleNone == V(400, 0, 400) \o <<P(30)>>
AreaCircleZero == V(200, 0, 200) \o <<0>>
AreaRectAll == V(350, 0, 50) \o V(50, 0, 350)
AreaRectOne == V(250, 0, 50) \o V(350, 0, 150)
AreaCircleOwn == V(120, 0, 120) \o <<P(100)>>

PlainOrders ==
    { Command(CMD_MOVE, {}, MoveTarget),
      Command(CMD_MOVE, {SHIFT_KEY}, MoveTarget),
      Command(CMD_FIGHT, {SHIFT_KEY}, V(200, 0, 400)),
      Command(CMD_PATROL, {ALT_KEY}, MoveTarget),
      Command(CMD_STOP, {}, <<>>),
      Command(CMD_WAIT, {}, <<>>),
      Command(CMD_SELFD, {}, <<>>),
      Command(CMD_FIRE_STATE, {}, <<2>>),
      Command(CMD_MOVE_STATE, {}, <<1>>),
      Command(CMD_ONOFF, {}, <<1>>),
      Command(CMD_REPEAT, {SHIFT_KEY}, <<1>>),
      Command(CMD_ATTACK, {}, <<5>>),
      Command(CMD_ATTACK, {SHIFT_KEY}, <<6>>),
      Command(CMD_ATTACK, {}, AreaCircleZero) }

FrontOrders ==
    { Command(CMD_MOVE, {}, FrontCenter \o FrontRightLong),
      Command(CMD_MOVE, {}, FrontCenter \o FrontRightRows),
      Command(CMD_MOVE, {CONTROL_KEY}, FrontCenter \o FrontRightRows),
      Command(CMD_FIGHT, {SHIFT_KEY}, FrontCenter \o FrontRightEdge),
      Command(CMD_MOVE, {}, FrontCenter \o FrontRightShort),
      Command(CMD_FIGHT, {ALT_KEY}, FrontCenter \o FrontRightOblique),
      Command(CMD_MOVE, {}, FrontCenter \o FrontRightNarrow),
      Command(CMD_MOVE, {}, FrontCenter \o FrontRightWide),
      Command(CMD_MOVE, {}, FrontCenter \o FrontCenter) }

ModifiedOrders ==
    { Command(CMD_MOVE, {ALT_KEY}, MoveTarget),
      Command(CMD_MOVE, {ALT_KEY, CONTROL_KEY}, MoveTarget),
      Command(CMD_MOVE, {CONTROL_KEY}, MoveTarget),
      Command(CMD_PATROL, {CONTROL_KEY, SHIFT_KEY}, MoveTarget),
      Command(CMD_FIGHT, {CONTROL_KEY, ALT_KEY}, MoveTarget) }

AreaOrders ==
    { Command(CMD_ATTACK, {}, AreaCircleAll),
      Command(CMD_ATTACK, {SHIFT_KEY}, AreaCircleAll),
      Command(CMD_ATTACK, {CONTROL_KEY}, AreaCircleAll),
      Command(CMD_ATTACK, {}, AreaCircleOne),
      Command(CMD_ATTACK, {}, AreaCircleNone),
      Command(CMD_ATTACK, {}, AreaRectAll),
      Command(CMD_ATTACK, {SHIFT_KEY}, AreaRectOne),
      Command(CMD_ATTACK, {CONTROL_KEY, SHIFT_KEY}, AreaRectAll) }

\* the orders player p gives in the model
Orders(p) ==
    IF p = myPlayerNum
       THEN PlainOrders \cup FrontOrders \cup ModifiedOrders \cup AreaOrders
       ELSE IF p \in Players
       THEN { Command(CMD_WAIT, {}, <<>>),
              Command(CMD_MOVE, {}, MoveTarget),
              Command(CMD_ATTACK, {}, AreaCircleOwn) }
       ELSE { Command(CMD_ATTACK, {}, AreaCircleAll),
              Command(CMD_ATTACK, {CONTROL_KEY}, AreaCircleAll),
              Command(CMD_ATTACK, {}, AreaRectAll) }

\* Exploration bound: every order above is explored as the last call of a
\* behaviour; the calls before it, which prepare the queues and leave the
\* handler fields used, are drawn from these orders
SetupOrders ==
    { Command(CMD_ATTACK, {SHIFT_KEY}, <<6>>),
      Command(CMD_MOVE, {SHIFT_KEY}, MoveTarget),
      Command(CMD_MOVE, {CONTROL_KEY}, MoveTarget),
      Command(CMD_MOVE, {}, FrontCenter \o FrontRightLong),
      Command(CMD_ATTACK, {SHIFT_KEY}, AreaCircleAll) }

\* the selections of player 0 the model starts from
Selections ==
    { <<>>, <<1>>, <<3>>, <<1, 2>>, <<3, 4>>, <<3, 2>>, <<2, 1, 3>>, <<4, 2, 3, 1>>,
      <<9, 1, 10, 13, 3, 11, 4, 12, 14, 2>> }

\* the sets of live units the model starts from
AliveSets == { UnitIDs, UnitIDs \ {2}, UnitIDs \ {3, 4} }

\* the command queues the model starts from: all empty, or unit 2 under way to
\* a waypoint and then to attack unit 5
InitialQueues ==
    { [u \in UnitIDs |-> <<>>],
      [u \in UnitIDs |->
          IF u = 2 THEN << Command(CMD_MOVE, {}, V(180, 0, 60)),
                           Command(CMD_ATTACK, {SHIFT_KEY}, <<5>>) >>
                   ELSE IF u = 5 THEN << Command(CMD_PATROL, {}, V(220, 0, 260)) >>
                   ELSE <<>>] }

\* the listing orders of the quad field the model starts from
QuadOrders == { [i \in UnitIDs |-> i], [i \in UnitIDs |-> Len(UnitTable) + 1 - i] }

---------------------------------------------------------------------------
(* The state machine *)

InitAI ==
    [ groupCenterCoor |-> ZeroVector, groupSumLength |-> 0, groupAvgLength |-> 0,
      groupMinMaxSpeed |-> 0, groupFrontLength |-> 0, groupAddedSpace |-> 0,
      formationCenterPos |-> ZeroVector, formationRightPos |-> ZeroVector,
      sortedUnitPairs |-> <<>>, sortedUnitGroups |-> <<>>, frontMoveCommands |-> <<>>,
      mixedUnitIDs |-> <<>>, mixedGroupSizes |-> <<>>, targetUnitIDs |-> <<>> ]

NoCall ==
    [ called |-> FALSE, c |-> Command(CMD_STOP, {}, <<>>), player |-> myPlayerNum,
      que |-> [u \in UnitIDs |-> <<>>], ai |-> InitAI ]

Init ==
    /\ unitAlive \in AliveSets
    /\ quadOrder \in QuadOrders
    /\ netSelected \in { [p \in PlayerSlots |->
                               IF p = myPlayerNum THEN s
                               ELSE IF p \in Players THEN <<5, 6>> ELSE <<1, 2>>] :
                           s \in Selections }
    /\ commandQue \in InitialQueues
    /\ ai = InitAI
    /\ given = <<>>
    /\ acks = 0
    /\ faults = {}
    /\ rowLog = <<>>
    /\ lookLog = <<>>
    /\ lastCall = NoCall
    /\ strategy = NO_UNITS
    /\ nCalls = 0

\* one order of player `player` is processed, from entry to return
GiveCommandNet(c, player) ==
    /\ nCalls < MaxCalls
    /\ lastCall.called => lastCall.c \in SetupOrders
    /\ LET m == [ ai |-> ai, que |-> commandQue, given |-> <<>>, acks |-> 0,
                  faults |-> {}, rows |-> <<>>, looks |-> <<>>, alive |-> unitAlive,
                  sel |-> netSelected[player],
                  quad |-> quadOrder, branch |-> NO_UNITS ]
       IN  \E r \in {GiveCommandNetResult(m, c, player)} :
               /\ ai' = r.ai
               /\ commandQue' = r.que
               /\ given' = r.given
               /\ acks' = r.acks
               /\ faults' = r.faults
               /\ rowLog' = r.rows
               /\ lookLog' = r.looks
               /\ strategy' = r.branch
    /\ lastCall' = [ called |-> TRUE, c |-> c, player |-> player,
                     que |-> commandQue, ai |-> ai ]
    /\ nCalls' = nCalls + 1
    /\ UNCHANGED <<unitAlive, quadOrder, netSelected>>

Next == \E player \in PlayerSlots : \E c \in Orders(player) : GiveCommandNet(c, player)

Spec == Init /\ [][Next]_vars

---------------------------------------------------------------------------
(* Vocabulary of the properties: the last call and what it gave *)

\* the selection the last call worked on
Sel == netSelected[lastCall.player]

IsLive(u) == u \in unitAlive

\* the selected identifiers that resolve to a unit, in selection order
LiveSel == SelectSeq(Sel, IsLive)

HasStale == \E i \in 1..Len(Sel) : ~IsLive(Sel[i])

IsSpeedMatch(g) == g.cmd.id = CMD_SET_WANTED_MAX_SPEED

IsOrder(g) == ~IsSpeedMatch(g)

\* the GiveCommand calls of the last call that are not speed-match orders
OrdersGiven == SelectSeq(given, IsOrder)

\* the GiveCommand calls of the last call on unit u
GivenTo(u) == LET To(g) == g.unit = u IN SelectSeq(given, To)

OrdersGivenTo(u) == LET To(g) == g.unit = u IN SelectSeq(OrdersGiven, To)

\* position of unit u in the selection
SelIndex(u) == CHOOSE i \in 1..Len(Sel) : Sel[i] = u

IndexIn(s, x) == CHOOSE i \in 1..Len(s) : s[i] = x

Range(s) == { s[i] : i \in 1..Len(s) }

IsPermutationOf(s, t) ==
    /\ Len(s) = Len(t)
    /\ Range(s) = Range(t)
    /\ \A i, j \in 1..Len(s) : s[i] = s[j] => i = j

\* the speed-match order a unit gets for itself
UnitSpeedMatch(u, options) ==
    [ unit |-> u, fromSynced |-> TRUE,
      cmd |-> Command(CMD_SET_WANTED_MAX_SPEED, options, <<Unit(u).maxSpeed>>) ]

\* the order kinds of the dispatch table
AreaAttackOrder(c) ==
    /\ c.id = CMD_ATTACK
    /\ Len(c.params) = 6 \/ (Len(c.params) = 4 /\ c.params[4] > 0)

DrawnFrontOrder(c) == c.id \in {CMD_MOVE, CMD_FIGHT} /\ Len(c.params) = 6

AltMoveOrder(c) == c.id = CMD_MOVE /\ ALT_KEY \in c.options

ControlMoveOrder(c) ==
    CONTROL_KEY \in c.options /\ c.id \in {CMD_MOVE, CMD_PATROL, CMD_FIGHT}

PlainOrder(c) ==
    ~AreaAttackOrder(c) /\ ~DrawnFrontOrder(c) /\ ~AltMoveOrder(c) /\ ~ControlMoveOrder(c)

ExcludedKind(c) ==
    c.id \in {CMD_STOP, CMD_WAIT, CMD_SELFD, CMD_FIRE_STATE, CMD_MOVE_STATE,
              CMD_ONOFF, CMD_REPEAT}

---------------------------------------------------------------------------
(* C1 *)

BroadcastCall == lastCall.called /\ Len(Sel) >= 2 /\ PlainOrder(lastCall.c)

\* C1: in the broadcast branch (two or more units selected, plain order) every
\* non-stale selected unit is given exactly one copy of the order, unmodified,
\* no other unit is given one, and the number of copies is the selection count
\* minus the number of stale identifiers.
C1_BroadcastOneCopyEach ==
    BroadcastCall =>
        /\ \A u \in UnitIDs :
               Len(OrdersGivenTo(u)) = IF u \in Range(LiveSel) THEN 1 ELSE 0
        /\ \A i \in 1..Len(OrdersGiven) : OrdersGiven[i].cmd = lastCall.c
        /\ Len(OrdersGiven)
               = Len(Sel) - Cardinality({ i \in 1..Len(Sel) : ~IsLive(Sel[i]) })

C1_Witness == BroadcastCall /\ HasStale /\ Len(OrdersGiven) >= 2

---------------------------------------------------------------------------
(* C2, C3, C4: the formation builder *)

\* a call that reaches MakeFormationFrontOrder
FrontCall ==
    /\ lastCall.called /\ Len(Sel) >= 2 /\ ~AreaAttackOrder(lastCall.c)
    /\ DrawnFrontOrder(lastCall.c) \/ AltMoveOrder(lastCall.c)

\* dist(centerPos, rightPos) >= selectionSize + 33
FrontLongEnough ==
    VDistance(ai.formationCenterPos, ai.formationRightPos) >= P(Len(Sel) + 33)

\* the number of orders in the rows closed so far
RECURSIVE RowOrders(_)
RowOrders(rows) ==
    IF rows = <<>> THEN 0 ELSE Len(rows[1].cmds) + RowOrders(Tail(rows))

\* C2: when the front is long enough, MakeFormationFrontOrder gives exactly one
\* destination order to every non-stale selected unit and none to any other
\* unit, whatever the number of rows; the rows together hold as many orders as
\* there are non-stale selected units, and every destination order has the kind
\* and options of the triggering order and one position.
C2_FormationComplete ==
    (FrontCall /\ FrontLongEnough) =>
        /\ \A u \in UnitIDs :
               Len(OrdersGivenTo(u)) = IF u \in Range(LiveSel) THEN 1 ELSE 0
        /\ Len(OrdersGiven) = Len(LiveSel)
        /\ RowOrders(rowLog) = Len(LiveSel)
        /\ \A i \in 1..Len(OrdersGiven) :
               /\ OrdersGiven[i].cmd.id = lastCall.c.id
               /\ OrdersGiven[i].cmd.options = lastCall.c.options
               /\ Len(OrdersGiven[i].cmd.params) = 3
        /\ faults = {}

C2_Witness ==
    FrontCall /\ FrontLongEnough /\ HasStale /\ Len(rowLog) >= 2 /\ Len(LiveSel) >= 3

\* a drawn front shorter than selectionSize + 33
ShortFrontCall ==
    /\ lastCall.called /\ Len(Sel) >= 2 /\ DrawnFrontOrder(lastCall.c)
    /\ VDistance(GetPos(lastCall.c, 0), GetPos(lastCall.c, 3)) < P(Len(Sel) + 33)

\* C3: when the front is too short, MakeFormationFrontOrder ranks, places and
\* mixes nothing: it gives the triggering order itself, once, to each non-stale
\* selected unit in selection order, before anything else, and the ranking, the
\* buckets, the row orders and the mixed list are left as they were.
C3_FormationFallback ==
    ShortFrontCall =>
        /\ Len(given) >= Len(LiveSel)
        /\ SubSeq(given, 1, Len(LiveSel))
               = [ i \in 1..Len(LiveSel) |->
                      [unit |-> LiveSel[i], cmd |-> lastCall.c, fromSynced |-> FALSE] ]
        /\ OrdersGiven = SubSeq(given, 1, Len(LiveSel))
        /\ rowLog = <<>>
        /\ ai.sortedUnitPairs = lastCall.ai.sortedUnitPairs
        /\ ai.sortedUnitGroups = lastCall.ai.sortedUnitGroups
        /\ ai.frontMoveCommands = lastCall.ai.frontMoveCommands
        /\ ai.mixedUnitIDs = lastCall.ai.mixedUnitIDs

C3_Witness ==
    ShortFrontCall /\ HasStale /\ Len(LiveSel) >= 2 /\ LiveSel[1] > LiveSel[2]

\* the units of a list of <key, unit> pairs
PairUnits(pairs) == [ i \in 1..Len(pairs) |-> pairs[i][2] ]

\* C4: CreateUnitOrder leaves in sortedUnitPairs the non-stale selected units,
\* each with its priority, in ascending priority, and units of equal priority
\* stand in selection order; in every priority bucket built from the ranking
\* the units have the bucket's priority and stand in selection order, and the
\* buckets of a row are in strictly ascending priority.
C4_StableRanking ==
    (FrontCall /\ FrontLongEnough) =>
        /\ IsPermutationOf(PairUnits(ai.sortedUnitPairs), LiveSel)
        /\ \A i \in 1..Len(ai.sortedUnitPairs) :
               ai.sortedUnitPairs[i][1] = UnitOrderValue(ai.sortedUnitPairs[i][2])
        /\ \A i, j \in 1..Len(ai.sortedUnitPairs) :
               i < j =>
                   /\ ai.sortedUnitPairs[i][1] <= ai.sortedUnitPairs[j][1]
                   /\ ai.sortedUnitPairs[i][1] = ai.sortedUnitPairs[j][1]
                          => SelIndex(ai.sortedUnitPairs[i][2])
                                 < SelIndex(ai.sortedUnitPairs[j][2])
        /\ \A r \in 1..Len(rowLog) :
               LET groups == rowLog[r].groups
               IN  /\ \A g, h \in 1..Len(groups) : g < h => groups[g][1] < groups[h][1]
                   /\ \A g \in 1..Len(groups) :
                          /\ groups[g][2] # <<>>
                          /\ \A a, b \in 1..Len(groups[g][2]) :
                                 /\ UnitOrderValue(groups[g][2][a]) = groups[g][1]
                                 /\ a < b => SelIndex(groups[g][2][a])
                                                 < SelIndex(groups[g][2][b])

\* two units of equal priority selected against their identifier order, in one bucket
C4_Witness ==
    /\ FrontCall /\ FrontLongEnough
    /\ \E r \in 1..Len(rowLog) : \E g \in 1..Len(rowLog[r].groups) :
           /\ Len(rowLog[r].groups[g][2]) >= 2
           /\ rowLog[r].groups[g][2][1] > rowLog[r].groups[g][2][2]
    /\ Len(rowLog) >= 2

---------------------------------------------------------------------------
(* C5, C6, C7: target assignment *)

\* the reference position the last call read for unit u: the queues are those
\* the call started from
CallReferencePos(u) ==
    IF SHIFT_KEY \in lastCall.c.options
       THEN LastQueuePosition(lastCall.que[u], u)
       ELSE Unit(u).midPos

RECURSIVE SumReferencePos(_)
SumReferencePos(units) ==
    IF units = <<>> THEN ZeroVector
    ELSE VAdd(CallReferencePos(units[1]), SumReferencePos(Tail(units)))

\* the mean reference position of the non-stale selected units
AttackCenter == VDivInt(SumReferencePos(LiveSel), Len(LiveSel))

\* an area attack without CONTROL that found targets and has a unit to command
AssignCall ==
    /\ lastCall.called /\ AreaAttackOrder(lastCall.c)
    /\ CONTROL_KEY \notin lastCall.c.options
    /\ ai.targetUnitIDs # <<>>
    /\ LiveSel # <<>>

\* C5: without CONTROL, SelectAttackNet ranks the candidate targets by
\* ascending squared planar distance from the group center; targets at equal
\* distance keep the order of the candidate list; the ranking is a permutation
\* of the candidate list.
C5_TargetRanking ==
    AssignCall =>
        /\ IsPermutationOf(PairUnits(ai.sortedUnitPairs), ai.targetUnitIDs)
        /\ \A i \in 1..Len(ai.sortedUnitPairs) :
               ai.sortedUnitPairs[i][1]
                   = SqLength2D(VSub(Unit(ai.sortedUnitPairs[i][2]).midPos, AttackCenter))
        /\ \A i, j \in 1..Len(ai.sortedUnitPairs) :
               i < j =>
                   /\ ai.sortedUnitPairs[i][1] <= ai.sortedUnitPairs[j][1]
                   /\ ai.sortedUnitPairs[i][1] = ai.sortedUnitPairs[j][1]
                          => IndexIn(ai.targetUnitIDs, ai.sortedUnitPairs[i][2])
                                 < IndexIn(ai.targetUnitIDs, ai.sortedUnitPairs[j][2])

\* a tie, and a ranking that differs from the candidate list
C5_Witness ==
    /\ AssignCall
    /\ PairUnits(ai.sortedUnitPairs) # ai.targetUnitIDs
    /\ \E i \in 1..(Len(ai.sortedUnitPairs) - 1) :
           ai.sortedUnitPairs[i][1] = ai.sortedUnitPairs[i + 1][1]

\* an area attack with no modifier that found targets
PlainAssignCall == AssignCall /\ lastCall.c.options = {}

\* the t-th attack order of an unmodified area attack, for unit u
RankedAttack(u, t) ==
    [ unit |-> u, fromSynced |-> TRUE,
      cmd |-> Command(CMD_ATTACK, IF t = 1 THEN {} ELSE {SHIFT_KEY},
                      <<ai.sortedUnitPairs[t][2]>>) ]

\* what unit u is given when every attack order is followed by a speed-match
AttacksWithSpeedMatch(u) ==
    [ k \in 1..(2 * Len(ai.targetUnitIDs)) |->
        IF k % 2 = 1 THEN RankedAttack(u, (k + 1) \div 2)
        ELSE UnitSpeedMatch(u, RankedAttack(u, k \div 2).cmd.options) ]

AttacksOnly(u) == [ t \in 1..Len(ai.targetUnitIDs) |-> RankedAttack(u, t) ]

\* C6 as stated: with no modifier, every non-stale selected unit is given one
\* attack order per target, in ranked order, the first not queued and the others
\* queued, each followed by one speed-match order to the same unit.
C6_EveryAttackSpeedMatched ==
    PlainAssignCall => \A u \in Range(LiveSel) : GivenTo(u) = AttacksWithSpeedMatch(u)

\* C6, amended: with no modifier, every non-stale selected unit is given one
\* attack order per target, in ranked order, the first not queued and the others
\* queued; each is followed by one speed-match order to the same unit when the
\* unit can set a max speed, and by none when it cannot; no other unit is
\* given anything.
C6_AttackPerTarget ==
    PlainAssignCall =>
        /\ \A u \in Range(LiveSel) :
               GivenTo(u) = IF CanSetMaxSpeed(u) THEN AttacksWithSpeedMatch(u)
                                                 ELSE AttacksOnly(u)
        /\ \A u \in UnitIDs \ Range(LiveSel) : GivenTo(u) = <<>>

C6_Witness ==
    /\ PlainAssignCall /\ Len(ai.targetUnitIDs) = 3 /\ Len(LiveSel) = 4
    /\ \E u \in Range(LiveSel) : ~CanSetMaxSpeed(u)

\* an area attack without SHIFT and without CONTROL that found targets
UnqueuedAssignCall == AssignCall /\ SHIFT_KEY \notin lastCall.c.options

IsAttackAt(i) == given[i].cmd.id = CMD_ATTACK

\* C7 as stated: only the first attack order of the whole operation is not
\* queued; every later one, also the first of each further unit, is queued.
C7_OnlyFirstOfOperationUnqueued ==
    UnqueuedAssignCall =>
        \A i \in 1..Len(given) :
            IsAttackAt(i) =>
                ((SHIFT_KEY \notin given[i].cmd.options)
                     <=> ~\E j \in 1..(i - 1) : IsAttackAt(j))

\* C7, amended: the first attack order given to each selected unit is not
\* queued (it replaces that unit's queue); every later attack order given to
\* the same unit is queued.
C7_FirstPerUnitUnqueued ==
    UnqueuedAssignCall =>
        \A i \in 1..Len(given) :
            IsAttackAt(i) =>
                ((SHIFT_KEY \notin given[i].cmd.options)
                     <=> ~\E j \in 1..(i - 1) :
                             IsAttackAt(j) /\ given[j].unit = given[i].unit)

C7_Witness ==
    UnqueuedAssignCall /\ Len(LiveSel) >= 2 /\ Len(ai.targetUnitIDs) >= 2 /\ HasStale

---------------------------------------------------------------------------
(* C8: CONTROL on an area attack *)

\* an area attack with CONTROL that found targets, on a non-empty selection
CancelCall ==
    /\ lastCall.called /\ AreaAttackOrder(lastCall.c)
    /\ CONTROL_KEY \in lastCall.c.options
    /\ ai.targetUnitIDs # <<>>
    /\ Sel # <<>>

\* how many attack orders on target t the queue q holds
QueuedAttacksOn(q, t) ==
    Cardinality({ i \in 1..Len(q) : q[i].id = CMD_ATTACK /\ q[i].params = <<t>> })

\* unit u started the call with an attack on one of the targets in its queue
HadQueuedTarget(u) ==
    \E t \in Range(ai.targetUnitIDs) : QueuedAttacksOn(lastCall.que[u], t) > 0

\* C8: an area attack with CONTROL only cancels: an attack order is given to a
\* selected unit only for a target the unit already had an attack queued on,
\* and it removes that queued attack; no queue gains an entry (no new attack,
\* no speed-match order); a selected unit without a matching queued attack is
\* given nothing and keeps its queue.
C8_ControlAreaAttackCancels ==
    CancelCall =>
        /\ \A i \in 1..Len(given) :
               /\ given[i].cmd.id = CMD_ATTACK
               /\ SHIFT_KEY \in given[i].cmd.options
               /\ given[i].unit \in Range(LiveSel)
               /\ \E t \in Range(ai.targetUnitIDs) :
                      /\ given[i].cmd.params = <<t>>
                      /\ QueuedAttacksOn(lastCall.que[given[i].unit], t) > 0
        /\ \A u \in UnitIDs :
               /\ Len(commandQue[u]) = Len(lastCall.que[u]) - Len(GivenTo(u))
               /\ \A t \in Range(ai.targetUnitIDs) :
                      QueuedAttacksOn(commandQue[u], t)
                          = IF u \in Range(LiveSel) /\ QueuedAttacksOn(lastCall.que[u], t) > 0
                               THEN QueuedAttacksOn(lastCall.que[u], t) - 1
                               ELSE QueuedAttacksOn(lastCall.que[u], t)
               /\ \A i \in 1..Len(commandQue[u]) :
                      \E j \in 1..Len(lastCall.que[u]) : commandQue[u][i] = lastCall.que[u][j]
               /\ ~(u \in Range(LiveSel) /\ HadQueuedTarget(u))
                      => GivenTo(u) = <<>> /\ commandQue[u] = lastCall.que[u]

\* one selected unit loses a queued attack, another selected unit has none to lose
C8_Witness ==
    /\ CancelCall
    /\ \E u, v \in Range(LiveSel) :
           /\ HadQueuedTarget(u) /\ Len(commandQue[u]) < Len(lastCall.que[u])
           /\ commandQue[u] # <<>>
           /\ ~HadQueuedTarget(v) /\ GivenTo(v) = <<>>

---------------------------------------------------------------------------
(* C9: early exits *)

\* the selection is empty, or an area attack finds no target or no live unit
EarlyExitCall ==
    /\ lastCall.called
    /\ \/ Sel = <<>>
       \/ AreaAttackOrder(lastCall.c) /\ (ai.targetUnitIDs = <<>> \/ LiveSel = <<>>)

\* C9: on an empty selection, and for an area attack with no candidate target
\* or with no selected identifier that resolves to a unit, the call gives no
\* order to any unit, leaves every queue as it was and divides by no zero count.
C9_EarlyExitsGiveNothing ==
    EarlyExitCall =>
        /\ given = <<>>
        /\ commandQue = lastCall.que
        /\ faults = {}

\* targets were found and units are selected, but every selected unit is stale
C9_Witness ==
    /\ EarlyExitCall /\ AreaAttackOrder(lastCall.c)
    /\ CONTROL_KEY \notin lastCall.c.options
    /\ ai.targetUnitIDs # <<>> /\ Sel # <<>> /\ LiveSel = <<>>

---------------------------------------------------------------------------
(* C10: one unit selected *)

\* one selected unit, not stale, and an order that is not an area attack
SingleCall ==
    /\ lastCall.called /\ Len(Sel) = 1 /\ IsLive(Sel[1])
    /\ ~AreaAttackOrder(lastCall.c)

TheOrder == [ unit |-> Sel[1], cmd |-> lastCall.c, fromSynced |-> TRUE ]

\* C10 as stated: the one selected unit is given the order itself, unmodified,
\* and then a speed-match order when the kind of the order is not excluded.
C10_SpeedMatchUnlessExcluded ==
    SingleCall =>
        given = IF ExcludedKind(lastCall.c) THEN <<TheOrder>>
                ELSE <<TheOrder, UnitSpeedMatch(Sel[1], lastCall.c.options)>>

\* C10, amended: the one selected unit is given the order itself, unmodified
\* (whatever its parameter count and modifiers), and then one speed-match order
\* when the kind of the order is not excluded and the unit can set a max
\* speed; a unit that cannot is given the order alone.
C10_SingleUnitOrder ==
    SingleCall =>
        given = IF ExcludedKind(lastCall.c) \/ ~CanSetMaxSpeed(Sel[1]) THEN <<TheOrder>>
                ELSE <<TheOrder, UnitSpeedMatch(Sel[1], lastCall.c.options)>>

\* a drawn front for one unit: the order still arrives as it was, speed-matched
C10_Witness ==
    /\ SingleCall /\ DrawnFrontOrder(lastCall.c) /\ CanSetMaxSpeed(Sel[1])
    /\ Len(given) = 2 /\ given[1] = TheOrder

---------------------------------------------------------------------------
(* C11: dispatch *)

\* the branch the dispatch table gives an order on a selection of n identifiers
FirstMatch(c, n) ==
    IF n = 0 THEN NO_UNITS
    ELSE IF AreaAttackOrder(c) THEN TARGET_ASSIGNMENT
    ELSE IF n = 1 THEN SINGLE_UNIT
    ELSE IF DrawnFrontOrder(c) THEN DRAWN_FRONT
    ELSE IF AltMoveOrder(c) THEN ALT_FRONT
    ELSE IF ControlMoveOrder(c) THEN RELATIVE_OFFSET
    ELSE BROADCAST

AltControlMove(c) ==
    c.id = CMD_MOVE /\ Len(c.params) = 3 /\ {ALT_KEY, CONTROL_KEY} \subseteq c.options

\* C11: a call with a non-empty selection takes the one branch that the table,
\* read top to bottom, names first for the order; an area attack goes to target
\* assignment also with one unit selected (the unit is never given the area
\* order itself), and a three-parameter move with ALT and CONTROL is laid out
\* as a formation, in rows, and not by relative offsets.
C11_DispatchFirstMatch ==
    (lastCall.called /\ Sel # <<>>) =>
        /\ strategy = FirstMatch(lastCall.c, Len(Sel))
        /\ AreaAttackOrder(lastCall.c) =>
               \A i \in 1..Len(given) :
                   IsOrder(given[i]) =>
                       /\ given[i].cmd.id = CMD_ATTACK
                       /\ Len(given[i].cmd.params) = 1
                       /\ given[i].cmd.params[1] \in Range(ai.targetUnitIDs)
        /\ (AltControlMove(lastCall.c) /\ Len(Sel) >= 2 /\ LiveSel # <<>>) =>
               /\ rowLog # <<>>
               /\ ai.formationCenterPos = GetPos(lastCall.c, 0)
               /\ Len(OrdersGiven) = Len(LiveSel)

\* one unit selected, area attack with targets found
C11_Witness ==
    /\ lastCall.called /\ Len(Sel) = 1 /\ IsLive(Sel[1])
    /\ AreaAttackOrder(lastCall.c) /\ strategy = TARGET_ASSIGNMENT
    /\ Len(OrdersGiven) >= 2

---------------------------------------------------------------------------
(* C12: target filtering *)

TargetCall == lastCall.called /\ strategy = TARGET_ASSIGNMENT

CircleCall == TargetCall /\ Len(lastCall.c.params) = 4

\* unit t is a target the player of the last call may be given
EligibleTarget(t) ==
    /\ IsValidPlayer(lastCall.player)
    /\ Unit(t).allyteam # AllyTeamOfPlayer(lastCall.player)
    /\ \/ LOS_INLOS \in LosStatus(t, AllyTeamOfPlayer(lastCall.player))
       \/ LOS_INRADAR \in LosStatus(t, AllyTeamOfPlayer(lastCall.player))

InsideCircle(t) ==
    SqLength2D(VSub(GetPos(lastCall.c, 0), Unit(t).midPos))
        <= FMul(lastCall.c.params[4], lastCall.c.params[4])

InsideBoundingSquare(t) ==
    /\ Abs(Unit(t).midPos[1] - lastCall.c.params[1]) <= lastCall.c.params[4]
    /\ Abs(Unit(t).midPos[3] - lastCall.c.params[3]) <= lastCall.c.params[4]

\* C12: target assignment attacks no unit of the issuing player's own ally
\* team and no unit that is neither in its line of sight nor on its radar; for
\* a circle no target lies farther from the center, in the plane, than the
\* radius, whatever the broad phase listed; an invalid issuing player gets an
\* empty target list and no order is given.
C12_TargetFiltering ==
    TargetCall =>
        /\ \A i \in 1..Len(given) :
               IsOrder(given[i]) =>
                   /\ given[i].cmd.id = CMD_ATTACK
                   /\ given[i].cmd.params[1] \in Range(ai.targetUnitIDs)
        /\ \A t \in Range(ai.targetUnitIDs) :
               /\ EligibleTarget(t)
               /\ CircleCall => InsideCircle(t)
        /\ ~IsValidPlayer(lastCall.player) => ai.targetUnitIDs = <<>> /\ given = <<>>

\* the broad phase listed a visible enemy outside the circle, and orders were given
C12_Witness ==
    /\ CircleCall /\ given # <<>>
    /\ \E t \in UnitIDs :
           EligibleTarget(t) /\ InsideBoundingSquare(t) /\ ~InsideCircle(t)

---------------------------------------------------------------------------
(* C13: mixing *)

FormationCall == FrontCall /\ FrontLongEnough /\ faults = {}

RECURSIVE RowsMixed(_)
\* the units of the closed rows, in the order their slots were given
RowsMixed(rows) ==
    IF rows = <<>> THEN <<>> ELSE rows[1].mixed \o RowsMixed(Tail(rows))

CeilDiv(a, b) == (a + b - 1) \div b

\* the priority buckets of the whole formation
FormationBuckets == { UnitOrderValue(u) : u \in Range(LiveSel) }

BucketSize(v) == Cardinality({ u \in Range(LiveSel) : UnitOrderValue(u) = v })

\* how many of the first p slots of sequence seq went to bucket v
SlotsOf(seq, p, v) == Cardinality({ i \in 1..p : UnitOrderValue(seq[i]) = v })

\* in the first p of total slots, a bucket of the given size, out of n buckets,
\* was assigned at most ceil(total/n) slots more than its share size*p/total
BoundedSkew(assigned, size, p, total, n) ==
    (assigned * total) - (size * p) <= CeilDiv(total, n) * total

---------------------------------------------------------------------------
(* C14: group center *)

\* the branches that call CalculateGroupData
GroupDataCall ==
    lastCall.called /\ strategy \in {DRAWN_FRONT, ALT_FRONT, RELATIVE_OFFSET}

\* the non-stale selected units that can set a max speed
MobileSel == SelectSeq(LiveSel, CanSetMaxSpeed)

MeanReferencePos(units) == VDivInt(SumReferencePos(units), Len(units))

\* C14: after CalculateGroupData the group center is the mean of the reference
\* positions of the mobile selected units when there is one, and otherwise the
\* mean of the reference positions of the selected units that contributed a
\* position, which are the non-stale ones.
C14_GroupCenter ==
    GroupDataCall =>
        /\ MobileSel # <<>> => ai.groupCenterCoor = MeanReferencePos(MobileSel)
        /\ (MobileSel = <<>> /\ LiveSel # <<>>) =>
               ai.groupCenterCoor = MeanReferencePos(LiveSel)

---------------------------------------------------------------------------
(* C15: speed-match values *)

\* the last call gave group speed-match orders: a front with CONTROL, or the
\* relative-offset branch without ALT
GroupSpeedCall ==
    /\ lastCall.called
    /\ \/ strategy \in {DRAWN_FRONT, ALT_FRONT} /\ CONTROL_KEY \in lastCall.c.options
       \/ strategy = RELATIVE_OFFSET /\ ALT_KEY \notin lastCall.c.options

\* the lowest current max speed among the mobile selected units
SlowestMobile ==
    CHOOSE v \in { Unit(u).maxSpeed : u \in Range(MobileSel) } :
        \A u \in Range(MobileSel) : v <= Unit(u).maxSpeed

\* C15: a speed-match order is given only to a unit that can set a max speed;
\* a per-unit one carries the current max speed of the unit that receives it;
\* a group one carries the lowest current max speed among the mobile units of
\* the selection, computed for the same order, which is never the initial 1e9
\* and never above the receiving unit's own current max speed.
C15_SpeedMatchValues ==
    lastCall.called =>
        \A i \in 1..Len(given) :
            IsSpeedMatch(given[i]) =>
                /\ given[i].unit \in Range(LiveSel)
                /\ CanSetMaxSpeed(given[i].unit)
                /\ Len(given[i].cmd.params) = 1
                /\ IF GroupSpeedCall
                      THEN /\ given[i].cmd.params[1] = SlowestMobile
                           /\ given[i].cmd.params[1] = ai.groupMinMaxSpeed
                           /\ given[i].cmd.params[1] # GROUP_SPEED_SENTINEL
                           /\ given[i].cmd.params[1] <= Unit(given[i].unit).maxSpeed
                      ELSE given[i].cmd.params[1] = Unit(given[i].unit).maxSpeed

\* a group order slower than its receiver, with an immobile unit selected too
C15_Witness ==
    /\ GroupSpeedCall
    /\ \E u \in Range(LiveSel) : ~CanSetMaxSpeed(u)
    /\ \E i \in 1..Len(given) :
           /\ IsSpeedMatch(given[i])
           /\ given[i].cmd.params[1] < Unit(given[i].unit).maxSpeed

---------------------------------------------------------------------------
(* C16: the kinds that need no speed-match order *)

DirectCall == lastCall.called /\ strategy \in {SINGLE_UNIT, BROADCAST}

\* the order of the last call as unit u receives it
OrderTo(u) == [ unit |-> u, cmd |-> lastCall.c, fromSynced |-> TRUE ]

\* C16 as stated: in the single-unit and broadcast branches an order of an
\* excluded kind is followed by no speed-match order, and an order of any other
\* kind is followed by a per-unit speed-match order for each receiving unit.
C16_SpeedMatchForEveryReceiver ==
    DirectCall =>
        \A u \in Range(LiveSel) :
            GivenTo(u) = IF ExcludedKind(lastCall.c) THEN <<OrderTo(u)>>
                         ELSE <<OrderTo(u), UnitSpeedMatch(u, lastCall.c.options)>>

\* C16, amended: in the single-unit and broadcast branches no speed-match order
\* is given after an order of kind stop, wait, self-destruct, fire-state,
\* move-state, on-off or repeat; after an order of any other kind each
\* receiving unit that can set a max speed gets one per-unit speed-match order
\* right after the order, and a receiving unit that cannot gets none.
C16_ExclusionSet ==
    DirectCall =>
        /\ ExcludedKind(lastCall.c) => \A i \in 1..Len(given) : ~IsSpeedMatch(given[i])
        /\ \A u \in Range(LiveSel) :
               GivenTo(u) = IF ExcludedKind(lastCall.c) \/ ~CanSetMaxSpeed(u)
                               THEN <<OrderTo(u)>>
                               ELSE <<OrderTo(u), UnitSpeedMatch(u, lastCall.c.options)>>

\* a broadcast of an excluded kind to units that could take a speed-match order
C16_Witness ==
    /\ DirectCall /\ strategy = BROADCAST /\ lastCall.c.id = CMD_WAIT
    /\ \E u, v \in Range(LiveSel) : u # v /\ CanSetMaxSpeed(u) /\ CanSetMaxSpeed(v)
    /\ Len(given) = Len(LiveSel)

\* ------------------------------------------------------------------------
\* C17: relative-offset orders
\* ------------------------------------------------------------------------

\* the last call took the CONTROL move/patrol/fight branch
RelativeCall == lastCall.called /\ strategy = RELATIVE_OFFSET

\* the point the last order was aimed at, and the point of a given order
OrderTarget == GetPos(lastCall.c, CMDPARAM_MOVE_X - 1)
IssuedTarget(g) == GetPos(g.cmd, CMDPARAM_MOVE_X - 1)

\* the order of the last call moved by a unit's offset from the group center
\* the call computed
OffsetOrder(u) ==
    LET t == VAdd(OrderTarget, VSub(CallReferencePos(u), ai.groupCenterCoor))
    IN  [ unit |-> u,
          cmd |-> [lastCall.c EXCEPT !.params[CMDPARAM_MOVE_X] = t[1],
                                     !.params[CMDPARAM_MOVE_Y] = t[2],
                                     !.params[CMDPARAM_MOVE_Z] = t[3]],
          fromSynced |-> TRUE ]

\* C17: when a CONTROL move, patrol or fight order is turned into
\* relative-offset orders, every selected unit that still exists is given
\* exactly one copy of the order, aimed at the order's target plus the unit's
\* reference position (end of its queue under SHIFT, where it stands
\* otherwise) minus the group center, stale identifiers are given nothing,
\* and so the targets of any two units differ by exactly what their reference
\* positions differ by.
C17_RelativeOffsets ==
    RelativeCall =>
        /\ \A u \in UnitIDs :
              OrdersGivenTo(u) =
                  IF u \in Range(LiveSel) THEN << OffsetOrder(u) >> ELSE << >>
        /\ \A i, j \in 1..Len(OrdersGiven) :
              VSub(IssuedTarget(OrdersGiven[i]), IssuedTarget(OrdersGiven[j]))
                  = VSub(CallReferencePos(OrdersGiven[i].unit),
                         CallReferencePos(OrdersGiven[j].unit))

\* a queued relative order to a selection with a stale identifier in which a
\* unit's queue ends away from where the unit stands
C17_Witness ==
    /\ RelativeCall /\ SHIFT_KEY \in lastCall.c.options /\ HasStale
    /\ Len(LiveSel) >= 2
    /\ Len(OrdersGiven) = Len(LiveSel)
    /\ \E u \in Range(LiveSel) : CallReferencePos(u) # Unit(u).midPos

\* ------------------------------------------------------------------------
\* C18: frame
\* ------------------------------------------------------------------------

\* the units no identifier of the calling player's selection names
Unselected == UnitIDs \ Range(Sel)

\* C18: a call gives commands only to units whose identifiers are in the
\* calling player's selection, and the order queue of every other unit
\* (targets of an area attack, units nobody selected, units another player
\* selected) is after the call what it was before, whichever branch ran.
C18_Frame ==
    lastCall.called =>
        /\ \A i \in 1..Len(given) : given[i].unit \in Range(Sel)
        /\ \A u \in Unselected : commandQue[u] = lastCall.que[u]

\* an area attack that gave orders, on a target another player has selected
\* and that has a pending order, next to an own unit with pending orders that
\* the caller did not select
C18_Witness ==
    /\ lastCall.called /\ strategy = TARGET_ASSIGNMENT /\ given # << >>
    /\ \E p \in Players \ {lastCall.player} :
          \E t \in Range(ai.targetUnitIDs) \cap Unselected :
              t \in Range(netSelected[p]) /\ lastCall.que[t] # << >>
    /\ \E u \in Unselected \ Range(ai.targetUnitIDs) : lastCall.que[u] # << >>

\* ------------------------------------------------------------------------
\* C19: stale identifiers
\* ------------------------------------------------------------------------

\* what the last call would have done had the selection held only the
\* identifiers that resolve to a unit
WithoutStale ==
    GiveCommandNetResult([ ai |-> lastCall.ai, que |-> lastCall.que, given |-> << >>,
                           acks |-> 0, faults |-> {}, rows |-> << >>,
                           looks |-> << >>,
                           alive |-> unitAlive, sel |-> LiveSel,
                           quad |-> quadOrder, branch |-> NO_UNITS ],
                         lastCall.c, lastCall.player)

\* C19: in every branch a selected identifier whose unit lookup fails gets
\* no command and is never accessed through a null unit, and when two or
\* more selected units exist each of them is given the commands it would
\* have been given had the stale identifier not been in the selection.
C19_StaleSkipped ==
    lastCall.called =>
        /\ faults = {}
        /\ \A i \in 1..Len(given) : IsLive(given[i].unit)
        /\ Len(LiveSel) >= 2 =>
              \A u \in Range(LiveSel) :
                  LET To(g) == g.unit = u
                  IN  GivenTo(u) = SelectSeq(WithoutStale.given, To)

\* ------------------------------------------------------------------------
\* C20: queueing of formation orders
\* ------------------------------------------------------------------------

\* q begins with the orders of p
StartsWith(q, p) == Len(q) >= Len(p) /\ SubSeq(q, 1, Len(p)) = p

LeftoverAI ==
    [ groupCenterCoor |-> V(7, 7, 7), groupSumLength |-> P(9), groupAvgLength |-> P(5),
      groupMinMaxSpeed |-> P(1), groupFrontLength |-> P(11), groupAddedSpace |-> P(13),
      formationCenterPos |-> V(1, 2, 3), formationRightPos |-> V(4, 5, 6),
      sortedUnitPairs |-> << <<P(1), 7>>, <<P(2), 8>> >>,
      sortedUnitGroups |-> << <<P(1), <<7>>>> >>,
      frontMoveCommands |-> << <<7, Command(CMD_MOVE, {}, V(1, 1, 1))>> >>,
      mixedUnitIDs |-> <<8>>, mixedGroupSizes |-> <<1>>, targetUnitIDs |-> <<1, 2>> ]

\* the last call run again from the same queues, units and selection, with
\* the handler fields holding a
RerunWith(a) ==
    GiveCommandNetResult([ ai |-> a, que |-> lastCall.que, given |-> << >>,
                           acks |-> 0, faults |-> {}, rows |-> << >>,
                           looks |-> << >>,
                           alive |-> unitAlive, sel |-> Sel,
                           quad |-> quadOrder, branch |-> NO_UNITS ],
                         lastCall.c, lastCall.player)

\* C21: the commands a call issues depend only on the order, the player's
\* selection and the state of the units: run from freshly constructed handler
\* fields, or from fields holding other leftovers, the call issues the same
\* commands to the same units in the same sequence and leaves the same queues
\* as it did from the fields the earlier calls left.
C21_NoRetention ==
    lastCall.called =>
        \A a \in {InitAI, LeftoverAI} :
            \E rerun \in {RerunWith(a)} :
                rerun.given = given /\ rerun.que = commandQue

\* a second call that built a formation with no room to spare, after a call
\* that left a spacing, a ranking and targets or row data behind
C21_Witness ==
    /\ nCalls = 2 /\ FormationCall /\ given # << >>
    /\ lastCall.ai.groupAddedSpace > 0 /\ ai.groupAddedSpace = 0
    /\ lastCall.ai.sortedUnitPairs # << >>
    /\ lastCall.ai.groupMinMaxSpeed # InitAI.groupMinMaxSpeed

\* ------------------------------------------------------------------------
\* C22: the mixing rule of a row
\* ------------------------------------------------------------------------

\* the units of bucket g of a closed row, and how many of them fill the
\* slots before slot j
BucketUnits(row, g) == row.groups[g][2]
FilledBefore(row, g, j) ==
    Cardinality({ i \in 1..(j - 1) : row.mixed[i] \in Range(BucketUnits(row, g)) })

\* bucket g is not exhausted at slot j; its fill ratio there
OpenAt(row, g, j) == FilledBefore(row, g, j) < Len(BucketUnits(row, g))
FillRatio(row, g, j) == <<1 + (2 * FilledBefore(row, g, j)), 2 * Len(BucketUnits(row, g))>>

\* slot j was filled from bucket b by the rule
ChosenByRule(row, b, j) ==
    /\ OpenAt(row, b, j)
    /\ \A g \in 1..Len(row.groups) :
          OpenAt(row, g, j) =>
              /\ RatioGeq(FillRatio(row, g, j), FillRatio(row, b, j))
              /\ RatioGeq(FillRatio(row, b, j), FillRatio(row, g, j)) => b <= g
    /\ row.mixed[j] = BucketUnits(row, b)[FilledBefore(row, b, j) + 1]

MixedByRule(row) ==
    /\ Len(row.mixed) = Len(row.cmds)
    /\ \A g \in 1..(Len(row.groups) - 1) : row.groups[g][1] < row.groups[g + 1][1]
    /\ \A j \in 1..Len(row.mixed) : \E b \in 1..Len(row.groups) : ChosenByRule(row, b, j)
    /\ \A g \in 1..Len(row.groups) :
          row.sizes[g] = FilledBefore(row, g, Len(row.mixed) + 1)
    /\ \A i, j \in 1..Len(row.mixed) :
          (i < j /\ UnitOrderValue(row.mixed[i]) = UnitOrderValue(row.mixed[j]))
              => SelIndex(row.mixed[i]) < SelIndex(row.mixed[j])

\* C22: in every closed row each slot, in row order, is filled from the
\* bucket with the lowest fill ratio (0.5 + filled) / bucketSize among the
\* buckets not exhausted in the row, the bucket of lowest priority winning a
\* tie; the slot gets that bucket's next unit in bucket order, so the units
\* of one bucket keep selection order, and the bucket's counter goes up by
\* one for each slot it fills.
C22_MixingRule ==
    FormationCall => \A r \in 1..Len(rowLog) : MixedByRule(rowLog[r])

\* a row of three or more buckets, one of them of two or more units, in which
\* a slot was decided by a tie between two open buckets
C22_Witness ==
    FormationCall /\ \E r \in 1..Len(rowLog) :
        /\ Len(rowLog[r].groups) >= 3
        /\ \E g \in 1..Len(rowLog[r].groups) : Len(BucketUnits(rowLog[r], g)) >= 2
        /\ \E j \in 1..Len(rowLog[r].mixed) : \E b, g \in 1..Len(rowLog[r].groups) :
              /\ b < g /\ ChosenByRule(rowLog[r], b, j) /\ OpenAt(rowLog[r], g, j)
              /\ RatioGeq(FillRatio(rowLog[r], b, j), FillRatio(rowLog[r], g, j))

\* ------------------------------------------------------------------------
\* C23: row breaks
\* ------------------------------------------------------------------------

\* the side direction of the front the last call built
FrontSideDir ==
    VAdd(VXZ(VSub(ai.formationCenterPos, ai.formationRightPos)),
         <<0, ai.groupFrontLength \div 2, 0>>)

\* the unit placed i-th in a closed row and the footprint it is placed with
RowUnit(row, i) == row.cmds[i][1]
UnitSize(u) == (Unit(u).xsize + Unit(u).zsize) \div 2

RECURSIVE RowCorner(_, _)
\* the lateral offset a row has reached before its i-th unit is placed
RowCorner(row, i) ==
    IF i = 1 THEN 0
    ELSE RowCorner(row, i - 1) + P(UnitSize(RowUnit(row, i - 1)) * SQUARE_SIZE * 2)
             + (IF i = 2 THEN 0 ELSE ai.groupAddedSpace)

\* the lateral position the i-th unit of a row is sent to, and the depth of
\* the r-th row
RowLateral(row, i) ==
    IF i = 1 THEN P(UnitSize(RowUnit(row, i)) * SQUARE_SIZE)
    ELSE RowCorner(row, i) + P(UnitSize(RowUnit(row, i)) * SQUARE_SIZE)
             + ai.groupAddedSpace
RowDepth(r) == 0 - ((r - 1) * ai.groupAvgLength * 2 * SQUARE_SIZE)

\* the offset x, less the added spacing, lies beyond the front
PastFront(x) == (x - ai.groupAddedSpace) > ai.groupFrontLength

\* The claim as stated: every row holds a unit and no unit is sent to a
\* lateral position beyond frontLength.
C23_RowsWithinFront ==
    FormationCall =>
        \A r \in 1..Len(rowLog) :
            /\ Len(rowLog[r].cmds) >= 1
            /\ \A i \in 1..Len(rowLog[r].cmds) :
                  RowLateral(rowLog[r], i) <= ai.groupFrontLength

\* C23: walking the ranking, a unit starts a new row exactly when the
\* lateral offset reached before it, less the added spacing, is beyond
\* frontLength; the new row starts at lateral offset 0, stepped back by
\* avgFootprint * 2 * gridUnit from the row before.  Every row holds at least
\* one unit, and a unit is placed in its row only from an offset that is not
\* beyond the front in that sense (its own position may lie beyond it).
C23_RowBreak ==
    FormationCall =>
        \A r \in 1..Len(rowLog) :
            /\ Len(rowLog[r].cmds) >= 1
            /\ \A i \in 1..Len(rowLog[r].cmds) :
                  /\ ~PastFront(RowCorner(rowLog[r], i))
                  /\ rowLog[r].cmds[i][2].params =
                         FrontToMap(ai, FrontSideDir, RowLateral(rowLog[r], i), RowDepth(r))
            /\ r < Len(rowLog) =>
                  PastFront(RowCorner(rowLog[r], Len(rowLog[r].cmds) + 1))

\* a formation of three or more rows in which a unit is sent beyond the
\* length of the front
C23_Witness ==
    /\ FormationCall /\ Len(rowLog) >= 3
    /\ \E r \in 1..Len(rowLog) : \E i \in 1..Len(rowLog[r].cmds) :
          i >= 2 /\ RowLateral(rowLog[r], i) > ai.groupFrontLength

\* ------------------------------------------------------------------------
\* C24: the look-ahead and the row break agree
\* ------------------------------------------------------------------------

\* the number of rows opened up to the k-th placed unit, by the decisions
\* taken when the units were placed
DepthIndex(k) == 1 + Cardinality({ j \in 1..k : lookLog[j].placed })

\* the units placed into row r, in the order they were placed
PlacedInRow(r) ==
    LET InRow(l) == l.row = r
        placed == SelectSeq(lookLog, InRow)
    IN  [i \in 1..Len(placed) |-> placed[i].unit]

\* C24: a row is closed exactly when the look-ahead made after a unit says
\* the next unit starts a new row, or when no unit is left; what the
\* look-ahead said is what is decided when that next unit is placed, so the
\* units flushed together are the units placed at one row depth; and when
\* the formation is done every row command has been given.
C24_LookaheadConsistent ==
    FormationCall =>
        /\ Len(lookLog) = Len(ai.sortedUnitPairs)
        /\ \A k \in 1..Len(lookLog) :
              /\ lookLog[k].looked <=> k < Len(lookLog)
              /\ lookLog[k].row = DepthIndex(k)
              /\ k < Len(lookLog) =>
                    /\ lookLog[k].ahead <=> lookLog[k + 1].placed
                    /\ lookLog[k + 1].row = lookLog[k].row + (IF lookLog[k].ahead THEN 1 ELSE 0)
              /\ k = Len(lookLog) => lookLog[k].row = Len(rowLog)
        /\ \A r \in 1..Len(rowLog) :
              [i \in 1..Len(rowLog[r].cmds) |-> RowUnit(rowLog[r], i)] = PlacedInRow(r)
        /\ ai.frontMoveCommands = << >> /\ ai.sortedUnitGroups = << >>
        /\ Len(OrdersGiven) = Len(lookLog)

\* a formation of three or more rows, one of them of three or more units
C24_Witness ==
    /\ FormationCall /\ Len(rowLog) >= 3
    /\ \E k \in 1..Len(lookLog) : lookLog[k].ahead
    /\ \E k \in 1..Len(lookLog) : lookLog[k].looked /\ ~lookLog[k].ahead
    /\ \E r \in 1..Len(rowLog) : Len(rowLog[r].cmds) >= 3

\* ------------------------------------------------------------------------
\* C25: formation orders first, then one speed match per unit
\* ------------------------------------------------------------------------

\* the last call took one of the two front-formation branches
FrontBranchCall == lastCall.called /\ strategy \in {DRAWN_FRONT, ALT_FRONT}

\* the speed-match order of the front branches for unit u: the group's
\* speed under CONTROL, the unit's own otherwise
FrontSpeedMatch(u) ==
    [ unit |-> u, fromSynced |-> TRUE,
      cmd |-> Command(CMD_SET_WANTED_MAX_SPEED, lastCall.c.options,
                      << IF CONTROL_KEY \in lastCall.c.options
                            THEN ai.groupMinMaxSpeed
                            ELSE Unit(u).maxSpeed >>) ]

\* C25: in the front-formation branches every destination order of the call
\* is given before any speed-match order; then each selected unit that
\* exists is tried once, in selection order, with the group variant exactly
\* when CONTROL is set and the per-unit variant otherwise (a unit that cannot
\* set a max speed is given nothing by the attempt).
C25_SpeedMatchAfterFormation ==
    FrontBranchCall =>
        /\ \A i, j \in 1..Len(given) :
              (i < j /\ IsSpeedMatch(given[i])) => IsSpeedMatch(given[j])
        /\ SelectSeq(given, IsSpeedMatch) =
              [k \in 1..Len(SelectSeq(LiveSel, CanSetMaxSpeed)) |->
                  FrontSpeedMatch(SelectSeq(LiveSel, CanSetMaxSpeed)[k])]
        /\ Len(OrdersGiven) = Len(LiveSel)

\* a CONTROL front for a selection with a stale identifier, a unit that
\* cannot set a max speed and a unit faster than the slowest
C25_Witness ==
    /\ FrontBranchCall /\ CONTROL_KEY \in lastCall.c.options /\ HasStale
    /\ \E u \in Range(LiveSel) : ~CanSetMaxSpeed(u)
    /\ \E u \in Range(LiveSel) : CanSetMaxSpeed(u) /\ Unit(u).maxSpeed > ai.groupMinMaxSpeed
    /\ Len(OrdersGiven) >= 2

\* ------------------------------------------------------------------------
\* C26: acknowledgement of wait orders
\* ------------------------------------------------------------------------

\* the last call was a wait order of the local player to a selection that
\* is not empty
LocalWaitCall ==
    /\ lastCall.called /\ lastCall.c.id = CMD_WAIT
    /\ lastCall.player = myPlayerNum /\ Len(Sel) >= 1

\* C26: a wait order of the local player to a non-empty selection is
\* acknowledged exactly once by the call, in the single-unit branch as in the
\* broadcast branch; a wait order of another player and an order of another
\* kind are never acknowledged.
C26_WaitAcknowledged ==
    lastCall.called => acks = IF LocalWaitCall THEN 1 ELSE 0

\* ------------------------------------------------------------------------
\* C27: the mixing never reads past a bucket
\* ------------------------------------------------------------------------

RECURSIVE BucketTotal(_, _)
\* the number of units in the first g buckets of a flushed row
BucketTotal(row, g) ==
    IF g = 0 THEN 0 ELSE Len(BucketUnits(row, g)) + BucketTotal(row, g - 1)

\* a flushed row whose mixing stayed inside its buckets
RowMixedSafely(row, r) ==
    /\ Len(row.cmds) = BucketTotal(row, Len(row.groups))
    /\ Len(row.mixed) = Len(row.cmds)
    /\ \A j \in 1..Len(row.cmds) : \E g \in 1..Len(row.groups) : OpenAt(row, g, j)
    /\ \A g \in 1..Len(row.groups) : row.sizes[g] = Len(BucketUnits(row, g))
    /\ IsPermutationOf(row.mixed, PlacedInRow(r))

\* C27: at every row flush the row holds as many commands as its priority
\* buckets hold units, so at every slot some bucket is not exhausted, the
\* index taken from the chosen bucket is below the bucket's size (nothing is
\* read past the end, nor from the first bucket once all are exhausted), and
\* the mixed identifiers are a permutation of the units placed in the row.
C27_MixingIndexSafety ==
    (FrontCall /\ FrontLongEnough) =>
        /\ faults = {}
        /\ \A r \in 1..Len(rowLog) : RowMixedSafely(rowLog[r], r)

\* a formation of several rows, one of them with a bucket of several units
\* next to other buckets, and a stale identifier in the selection
C27_Witness ==
    /\ FrontCall /\ FrontLongEnough /\ Len(rowLog) >= 2 /\ HasStale
    /\ \E r \in 1..Len(rowLog) :
          /\ Len(rowLog[r].groups) >= 2
          /\ \E g \in 1..Len(rowLog[r].groups) : Len(BucketUnits(rowLog[r], g)) >= 2
          /\ rowLog[r].mixed # PlacedInRow(r)
          /\ RowMixedSafely(rowLog[r], r)

\* ------------------------------------------------------------------------
\* C28: no division by zero
\* ------------------------------------------------------------------------

\* the branches that call CalculateGroupData, and those that build a front
GeometryBranches == {DRAWN_FRONT, ALT_FRONT, RELATIVE_OFFSET}
FrontBranches == {DRAWN_FRONT, ALT_FRONT}

\* formationDir.y of MoveToPos: half the front length
ProjectionDivisor == ai.groupFrontLength \div 2

\* the front the last call built its formation on, or fell back from
FrontDistance == VDistance(ai.formationCenterPos, ai.formationRightPos)

\* a formation position was projected by the last call
ProjectedCall == lastCall.called /\ strategy \in FrontBranches /\ lookLog # <<>>

\* C28: no call divides by zero: the group geometry is computed only for a
\* selection of two identifiers or more, so the selection size and the
\* divisor of the added spacing (size - 1) are at least 1; whenever a
\* formation position is projected the divisor, half the front length, is
\* the distance from the front's center to its right end and is at least
\* size + 33; and a front shorter than that, a degenerate one included, is
\* turned into the plain move with no position projected.
C28_NoDivisionByZero ==
    lastCall.called =>
        /\ "division by zero" \notin faults
        /\ strategy \in GeometryBranches => Len(Sel) - 1 >= 1
        /\ ProjectedCall =>
               /\ ProjectionDivisor = FrontDistance
               /\ ProjectionDivisor >= P(Len(Sel) + MIN_FRONT_EXCESS)
               /\ ProjectionDivisor > 0
        /\ (strategy \in FrontBranches /\ FrontDistance < P(Len(Sel) + MIN_FRONT_EXCESS)) =>
               /\ lookLog = <<>> /\ rowLog = <<>>
               /\ \A i \in 1..Len(OrdersGiven) : Len(OrdersGiven[i].cmd.params) = 6

\* a formation for two identifiers on a front with room to spare: the spare
\* room was divided by 1, the smallest divisor there is, and positions were
\* projected
C28_Witness ==
    /\ ProjectedCall /\ Len(Sel) = 2 /\ ai.groupAddedSpace > 0
    /\ ProjectionDivisor > 0

\* ------------------------------------------------------------------------
\* C29: a queued area attack adds, never cancels
\* ------------------------------------------------------------------------

\* an area attack with SHIFT and without CONTROL that found targets and units
QueuedAssignCall == AssignCall /\ SHIFT_KEY \in lastCall.c.options

\* the attack orders on target t, and the speed-match orders, given to unit u
AttacksGivenOn(u, t) ==
    Cardinality({ i \in 1..Len(given) :
                    /\ given[i].unit = u /\ IsAttackAt(i)
                    /\ given[i].cmd.params = <<t>> })

SpeedMatchesGivenTo(u) ==
    Cardinality({ i \in 1..Len(given) : given[i].unit = u /\ IsSpeedMatch(given[i]) })

\* the targets unit u had no attack queued on when the call began
NewTargets(u) ==
    { t \in Range(ai.targetUnitIDs) : QueuedAttacksOn(lastCall.que[u], t) = 0 }

\* the same area attack, processed once more from the state the call left
AgainFromNow ==
    SelectAttackNet([ ai |-> ai, que |-> commandQue, given |-> << >>,
                      acks |-> 0, faults |-> {}, rows |-> << >>, looks |-> << >>,
                      alive |-> unitAlive, sel |-> Sel,
                      quad |-> quadOrder, branch |-> TARGET_ASSIGNMENT ],
                    lastCall.c, lastCall.player)

\* C29: an area attack with SHIFT and without CONTROL never cancels: a unit
\* that has an attack on a target queued is given neither an attack nor a
\* speed-match order for that target, every attack given is queued, and every
\* queue keeps what it held; and the same order given once more leaves every
\* queue as the first left it.
C29_QueuedAttackNeverCancels ==
    QueuedAssignCall =>
        /\ \A u \in Range(LiveSel) :
               /\ \A t \in Range(ai.targetUnitIDs) :
                      AttacksGivenOn(u, t) = IF t \in NewTargets(u) THEN 1 ELSE 0
               /\ SpeedMatchesGivenTo(u) =
                      IF CanSetMaxSpeed(u) THEN Cardinality(NewTargets(u)) ELSE 0
               /\ StartsWith(commandQue[u], lastCall.que[u])
               /\ Len(commandQue[u]) =
                      Len(lastCall.que[u]) + Cardinality(NewTargets(u)) + SpeedMatchesGivenTo(u)
        /\ \A i \in 1..Len(given) : IsAttackAt(i) => SHIFT_KEY \in given[i].cmd.options
        /\ \E again \in {AgainFromNow} :
               again.given = << >> /\ again.que = commandQue

\* a unit with an attack queued on one target of several is given the others;
\* next to it a unit with nothing queued is given them all
C29_Witness ==
    /\ QueuedAssignCall /\ Len(ai.targetUnitIDs) >= 2
    /\ \E u, v \in Range(LiveSel) :
           /\ HadQueuedTarget(u) /\ NewTargets(u) # {}
           /\ Len(OrdersGivenTo(u)) = Cardinality(NewTargets(u))
           /\ NewTargets(v) = Range(ai.targetUnitIDs) /\ lastCall.que[v] # << >>

\* ------------------------------------------------------------------------
\* C30: the reference position under queueing
\* ------------------------------------------------------------------------

\* the queued orders of q that hold a position: three parameters or more
Positioned(q) == { i \in 1..Len(q) : Len(q[i].params) >= 3 }

\* where the queue q of unit u ends: the position of the last order that
\* holds one, and where the unit stands when none does
QueueEnd(q, u) ==
    IF Positioned(q) = {} THEN Unit(u).midPos
    ELSE LET last == CHOOSE i \in Positioned(q) : \A j \in Positioned(q) : j <= i
         IN  <<q[last].params[1], q[last].params[2], q[last].params[3]>>

\* the position the last call is to take for unit u
QueueingRef(u) ==
    IF SHIFT_KEY \in lastCall.c.options
       THEN QueueEnd(lastCall.que[u], u)
       ELSE Unit(u).midPos

RECURSIVE SumQueueingRef(_)
SumQueueingRef(units) ==
    IF units = <<>> THEN ZeroVector
    ELSE VAdd(QueueingRef(units[1]), SumQueueingRef(Tail(units)))

MeanQueueingRef(units) == VDivInt(SumQueueingRef(units), Len(units))

\* C30: LastQueuePosition is the position of the last order of the unit's
\* queue that has three parameters or more, and the position of the unit when
\* the queue holds no such order or is empty; the group center of
\* CalculateGroupData, the offsets of the relative orders and the center the
\* targets of an area attack are ranked from are computed from it when the
\* order has SHIFT, and from the positions of the units when it has not.
C30_ReferencePosition ==
    lastCall.called =>
        /\ \A u \in UnitIDs :
               /\ LastQueuePosition(commandQue[u], u) = QueueEnd(commandQue[u], u)
               /\ LastQueuePosition(lastCall.que[u], u) = QueueEnd(lastCall.que[u], u)
        /\ (GroupDataCall /\ MobileSel # <<>>) =>
               ai.groupCenterCoor = MeanQueueingRef(MobileSel)
        /\ RelativeCall =>
               \A i \in 1..Len(OrdersGiven) :
                   IssuedTarget(OrdersGiven[i])
                       = VAdd(OrderTarget,
                              VSub(QueueingRef(OrdersGiven[i].unit), ai.groupCenterCoor))
        /\ AssignCall =>
               \A t \in 1..Len(ai.sortedUnitPairs) :
                   ai.sortedUnitPairs[t][1]
                       = SqLength2D(VSub(Unit(ai.sortedUnitPairs[t][2]).midPos,
                                         MeanQueueingRef(LiveSel)))

\* a queued relative order to a selection in which one unit's queue ends with
\* an order that holds no position after one that does, and another unit's
\* queue holds no position at all
C30_Witness ==
    /\ RelativeCall /\ SHIFT_KEY \in lastCall.c.options
    /\ \E u, v \in Range(LiveSel) :
           /\ Positioned(lastCall.que[u]) # {}
           /\ Len(lastCall.que[u]) \notin Positioned(lastCall.que[u])
           /\ QueueingRef(u) # Unit(u).midPos
           /\ lastCall.que[v] # << >> /\ Positioned(lastCall.que[v]) = {}
           /\ Len(OrdersGivenTo(u)) = 1 /\ Len(OrdersGivenTo(v)) = 1

====
